---- MODULE Spec2Model ----
(***************************************************************************)
(* Race-based execution engine of src/main.py: the process-wide browser    *)
(* semaphore, the worker (_run_worker), the race coordinator (_race) and   *)
(* the round scheduler (run_agent).                                        *)
(*                                                                         *)
(* Every task is an asyncio task on one event loop.  A worker is modelled  *)
(* with one position per suspension point of its coroutine (and a few      *)
(* positions in between), so two workers interleave at least as freely as  *)
(* the event loop lets them.                                               *)
(*                                                                         *)
(* The specifications share the state and the actions:                     *)
(*   Spec      run_agent, as written: every round races one worker         *)
(*             (line 1057 passes [pool[0]]), several requests at a time.   *)
(*   AgentSpec one run_agent request on its own.                           *)
(*   RaceSpec  one call of _race with K proxies, K in 1..MaxWorkers.       *)
(*   RaceFair  RaceSpec with the event loop's timers and cancellations     *)
(*             taking effect.                                              *)
(*   Fair      one request and a competing _race call on the shipped       *)
(*             capacity, fairly scheduled.                                 *)
(*   LimiterSpec  two calls of _race contending for the one slot.          *)
(* The helpers (_is_valid, the extraction passes, the warm-up, the step    *)
(* callback, the CAPTCHA polling, the artifact assembly of                 *)
(* src/utils/helpers.py) and the single-attempt endpoint of src/good.py    *)
(* are taken on their own, each in a specification over the locals of one  *)
(* call.                                                                   *)
(***************************************************************************)
EXTENDS Integers, Sequences, FiniteSets, TLC

\* ---------------------------------------------------------------- bounds
NumRequests == 2
MaxWorkers  == 2
MaxCapacity == 2
MaxSteps    == 1
MaxPool     == 2
\* the filler characters ahead of a phrase, and past the least length
MaxPad      == 1
\* the elements of a list and the entries of a mapping
MaxItems    == 2
\* the action results of a history
MaxActions  == 2
\* the calls of the step callback in one run taken on its own
MaxCalls    == 5
\* the PNG files of a frame folder
MaxFrames   == 3

\* ------------------------------------------------------ program constants
RACE_MAX_ROUNDS == 5
MAX_BROWSERS    == 1
WARMUP_SITES    == 3
RELOAD_FROM     == 2
ABORT_FROM      == 4
POLL_LIMIT      == 60
POLL_INTERVAL   == 2

Requests == 1..NumRequests
Workers  == 1..MaxWorkers

VARIABLES
    capacity,           \* the value the semaphore was built with (line 67)
    browser_semaphore,  \* free slots of _browser_semaphore (line 67)
    worker,             \* worker[q][i]: task i of request q's current race
                        \* and the locals of its _run_worker (lines 808-1006)
    race,               \* race[q]: locals of request q's current _race call
                        \* (lines 1012-1021)
    agent,              \* agent[q]: locals of request q's run_agent call
                        \* (lines 1054-1065)
    call                \* the locals of one call of a helper taken on its
                        \* own: _is_valid, the extraction passes, _step,
                        \* _capsolver_solve, create_and_upload_video

engine == <<capacity, browser_semaphore, worker, race, agent>>

vars == <<capacity, browser_semaphore, worker, race, agent, call>>

\* ------------------------------------------------------------ data values
\* Python values, as far as _is_valid tells them apart: a value carries its
\* type; a text is its sequence of characters, a list its elements, a
\* mapping its keys and, in the same order, its values.
None == [type |-> "NoneType"]
Str(chars) == [type |-> "str", chars |-> chars]
List(items) == [type |-> "list", items |-> items]
Dict(keys, values) == [type |-> "dict", keys |-> keys, values |-> values]
Num(n) == [type |-> "int", n |-> n]
Bool(b) == [type |-> "bool", b |-> b]
Tuple(items) == [type |-> "tuple", items |-> items]

\* str.lower, character by character
UPPER == <<"A", "B", "C", "D", "E", "F", "G", "H", "I", "J", "K", "L", "M",
           "N", "O", "P", "Q", "R", "S", "T", "U", "V", "W", "X", "Y", "Z">>
LOWER == <<"a", "b", "c", "d", "e", "f", "g", "h", "i", "j", "k", "l", "m",
           "n", "o", "p", "q", "r", "s", "t", "u", "v", "w", "x", "y", "z">>

lower(chars) ==
    [i \in 1..Len(chars) |->
        IF \E u \in 1..Len(UPPER) : UPPER[u] = chars[i]
        THEN LOWER[CHOOSE u \in 1..Len(UPPER) : UPPER[u] = chars[i]]
        ELSE chars[i]]

\* `k in low`: k occurs in low as a substring
Contains(low, k) ==
    \E i \in 0..(Len(low) - Len(k)) : SubSeq(low, i + 1, i + Len(k)) = k

\* lines 723-725: the denylist
bad == <<
    <<"a", "g", "e", "n", "t", " ", "e", "r", "r", "o", "r">>,
    <<"b", "r", "o", "w", "s", "e", "r", "_", "c", "h", "e", "c", "k">>,
    <<"c", "a", "p", "t", "c", "h", "a">>,
    <<"w", "r", "o", "n", "g", " ", "c", "a", "p", "t", "c", "h", "a">>,
    <<"e", "r", "r", "o", "r", ":">>,
    <<"m", "a", "i", "n", "t", "e", "n", "a", "n", "c", "e">>,
    <<"a", "c", "c", "e", "s", "s", " ", "d", "e", "n", "i", "e", "d">>,
    <<"f", "o", "r", "b", "i", "d", "d", "e", "n">>,
    <<"p", "l", "e", "a", "s", "e", " ", "w", "a", "i", "t">>,
    <<"j", "u", "s", "t", " ", "a", " ", "m", "o", "m", "e", "n", "t">>,
    <<"c", "h", "e", "c", "k", "i", "n", "g", " ", "y", "o", "u", "r", " ",
      "b", "r", "o", "w", "s", "e", "r">>>>

\* line 728: the least length of an acceptable text
MIN_TEXT == 200

\* lines 718-737: _is_valid
isinstance(v, type) == v.type = type

\* line 719: result in (None, "", [], {})
falsy_no_none(result) ==
    result \in {Str(<<>>), List(<<>>), Dict(<<>>, <<>>)}

falsy(result) ==
    result \in {None, Str(<<>>), List(<<>>), Dict(<<>>, <<>>)}

\* lines 722 and 726: any(k in low for k in bad)
bad_text_case_sensitive(result) ==
    \E k \in 1..Len(bad) : Contains(result.chars, bad[k])

bad_text(result) ==
    LET low == lower(result.chars)
    IN  \E k \in 1..Len(bad) : Contains(low, bad[k])

\* lines 730-734: the verdict on a mapping
valid_dict_rows_only(result) ==
    \E v \in 1..Len(result.values) :
        /\ isinstance(result.values[v], "list")
        /\ Len(result.values[v].items) > 0
        /\ isinstance(result.values[v].items[1], "dict")

valid_dict(result) ==
    IF \E v \in 1..Len(result.values) :
            /\ isinstance(result.values[v], "list")
            /\ Len(result.values[v].items) > 0
            /\ isinstance(result.values[v].items[1], "dict")
    THEN TRUE
    ELSE \E v \in 1..Len(result.values) :
            /\ isinstance(result.values[v], "list")
            /\ Len(result.values[v].items) > 0

\* lines 735-736: the verdict on a bare list
valid_list_non_empty(result) ==
    Len(result.items) > 0

valid_list(result) ==
    /\ Len(result.items) > 0
    /\ isinstance(result.items[1], "dict")

is_valid(result) ==
    IF falsy(result) THEN FALSE
    ELSE IF isinstance(result, "str") /\ bad_text(result) THEN FALSE
    ELSE IF isinstance(result, "str") /\ Len(result.chars) < MIN_TEXT
         THEN FALSE
    ELSE IF isinstance(result, "dict") THEN valid_dict(result)
    ELSE IF isinstance(result, "list") THEN valid_list(result)
    ELSE TRUE

\* A text of n filler characters.
Filler(n) == [i \in 1..n |-> "x"]

\* One scraped row: a mapping of field names to texts.
Row == Dict(<<"tender_title", "reference_number">>,
            <<Str(Filler(3)), Str(Filler(2))>>)

\* A list of rows, as the engine or the page scrape hands it back.
Rows == List(<<Row>>)

\* The payloads a worker can end extraction with, by the way _is_valid
\* treats them: the empty text, a text holding a denylisted phrase, and a
\* non-empty list whose first element is a mapping.
Payloads == {Str(<<>>), Str(bad[7]), Rows}

\* What a failed call leaves instead of a value.
Raised == [type |-> "Exception"]

\* `if x:` for a text or None
truthy(v) == v \notin {None, Str(<<>>), List(<<>>), Dict(<<>>, <<>>)}

\* lines 469-526: _js_scrape_procurement, given what page.evaluate gave
js_scrape_procurement(evaluated) ==
    IF evaluated # Raised /\ truthy(evaluated) /\ Len(evaluated.items) > 0
    THEN evaluated
    ELSE None

\* line 962: the page scrape is due
ScrapeIfEmpty(cleaned, page) ==
    ~truthy(cleaned) /\ page

ScrapeDue(cleaned, page) ==
    ~is_valid(cleaned) /\ page

\* What create_and_upload_video hands back to the worker: a hosted URL, a
\* local path, or nothing when the call raised (video_url stays None).
VideoUrls == {"None", "url", "local_path"}

\* No helper call is under way.
NoCall == [pc |-> "none"]

\* Terminal states of a worker task (the task is done).
Terminal == {"VALID", "INVALID", "TIMED_OUT", "CANCELLED", "ERRORED"}

\* Positions at which the coroutine is suspended in an await.
Suspended == {"acquire", "warmup", "run", "instep", "extract", "lockwait",
              "video"}

\* Positions inside `async with _browser_semaphore`.
Guarded == {"warmup", "run", "instep", "extract", "validated", "lockwait",
            "inlock", "claimed", "video"}

\* Positions inside `await asyncio.wait_for(agent.run(...))`: the engine is
\* between two callbacks, or the step callback is at one of its awaits.
Running == {"run", "instep"}

\* exc tells that the task's coroutine ended by an exception instead of
\* returning (Task.exception() or Task.cancelled()).
NoTask == [pc |-> "none", folder |-> FALSE, slot |-> FALSE, steps |-> 0,
           cleaned |-> None, must_cancel |-> FALSE, exc |-> FALSE]

NewTask == [NoTask EXCEPT !.pc = "created"]

\* claimed, puts and sent record which workers passed the winner-claim, how
\* many outcomes were queued in this race and which (history, not program
\* state).  raised tells whether _race ended by raising.
NoRace == [pc |-> "idle", cancel |-> FALSE, winner_lock |-> 0, q |-> <<>>,
           pending |-> {}, winner |-> <<>>, tasks |-> 0,
           claimed |-> {}, puts |-> 0, sent |-> <<>>, raised |-> FALSE]

NoResponse == [video_url |-> "None", steps_taken |-> 0,
               extracted_data |-> None, worker_id |-> 0]

\* lines 84-89: _PROXY_POOL as a list of n descriptors, named 1..n.  The
\* shipped list holds one descriptor.
ProxyPool(n) == [k \in 1..n |-> k]

\* races counts the calls of _race made so far and outcomes the outcomes
\* queued in the rounds that are over; slices lists the proxy lists handed
\* to the rounds so far (history, not program state).  pool is the
\* snapshot of line 1054.
NewAgent == [pc |-> "loop", rnd |-> 1, response |-> NoResponse,
             races |-> 0, outcomes |-> 0,
             pool |-> ProxyPool(1), slices |-> <<>>]

Done(q, i) == worker[q][i].pc \in Terminal

\* -------------------------------------------------------------- primitives
\* asyncio.Semaphore: acquire succeeds only while the counter is positive.
SemFreeAlways(s) == TRUE
SemFree(s) == s > 0

SemReleaseLost(s) == s
SemReleaseTwice(s) == s + 2
SemRelease(s) == s + 1

\* asyncio.Event.set
EventToggle(flag) == ~flag
EventSet(flag) == TRUE

\* line 974: the re-check of the flag once the winner lock is held
RecheckSkipped(flag) == FALSE
Recheck(flag) == flag

\* lines 828-829: the step callback starts with cancel_event.is_set()
CheckpointSkipped(flag) == FALSE
Checkpoint(flag) == flag

\* line 972: _is_valid(cleaned) and not cancel_event.is_set()
FirstCheckTruthy(cleaned, flag) == truthy(cleaned) /\ ~flag
FirstCheckNoValidator(cleaned, flag) == ~flag
FirstCheck(cleaned, flag) == is_valid(cleaned) /\ ~flag

\* lines 1024-1033: q.get_nowait(), QueueEmpty leaves winner None; what is
\* taken, as a sequence of at most one outcome
PollNever(queue) == <<>>
Poll(queue) == IF queue # <<>> THEN <<Head(queue)>> ELSE <<>>

\* line 1039: gather(*tasks, return_exceptions=True) hands the exceptions
\* of the tasks back as values
GatherRaises(escaped) == FALSE

\* --------------------------------------------------------------- _run_worker
\* Leaving the guarded block: the finally clause removes the folder, then
\* the semaphore's __aexit__ releases the slot; the locals die with the task.
Leave(q, i, how) ==
    /\ worker' = [worker EXCEPT ![q][i] = [NoTask EXCEPT !.pc = how]]
    /\ browser_semaphore' = SemRelease(browser_semaphore)

\* lines 816-825: the folder is made, then the LLM client is built; an
\* exception of build_llm leaves the coroutine before any try block.
WStart(q, i) ==
    /\ worker[q][i].pc = "created"
    /\ ~worker[q][i].must_cancel
    /\ \E llm_ok \in BOOLEAN :
         worker' = [worker EXCEPT ![q][i].folder = TRUE,
                                  ![q][i].pc = IF llm_ok THEN "acquire" ELSE "ERRORED",
                                  ![q][i].exc = ~llm_ok]
    /\ UNCHANGED <<call, capacity, browser_semaphore, race, agent>>

\* line 901: async with _browser_semaphore
WAcquire(q, i) ==
    /\ worker[q][i].pc = "acquire"
    /\ ~worker[q][i].must_cancel
    /\ SemFree(browser_semaphore)
    /\ browser_semaphore' = browser_semaphore - 1
    /\ worker' = [worker EXCEPT ![q][i].pc = "warmup", ![q][i].slot = TRUE]
    /\ UNCHANGED <<call, capacity, race, agent>>

\* lines 903-916: warm-up (its failures are swallowed), then the session and
\* the Agent are built; an exception there is caught at line 1000.
WWarmup(q, i) ==
    /\ worker[q][i].pc = "warmup"
    /\ ~worker[q][i].must_cancel
    /\ \E built \in BOOLEAN :
         IF built
         THEN /\ worker' = [worker EXCEPT ![q][i].pc = "run"]
              /\ UNCHANGED browser_semaphore
         ELSE Leave(q, i, "ERRORED")
    /\ UNCHANGED <<call, capacity, race, agent>>

\* lines 827-831: the engine calls _step at the end of a step, at most
\* max_steps times.  A set flag raises CancelledError out of agent.run
\* (caught at line 998); otherwise the step is counted and the callback goes
\* on to its body.
WStep(q, i) ==
    /\ worker[q][i].pc = "run"
    /\ ~worker[q][i].must_cancel
    /\ worker[q][i].steps < MaxSteps
    /\ IF Checkpoint(race[q].cancel)
       THEN Leave(q, i, "CANCELLED")
       ELSE /\ worker' = [worker EXCEPT ![q][i].steps = @ + 1,
                                        ![q][i].pc = "instep"]
            /\ UNCHANGED browser_semaphore
    /\ UNCHANGED <<call, capacity, race, agent>>

\* lines 832-896: the body of the callback (proxy check, CAPTCHA handling,
\* block detection, pacing, screenshot).  A persistent block raises
\* RuntimeError (caught at line 1000); any other exception is swallowed at
\* line 895 and the engine goes on.
WStepBody(q, i) ==
    /\ worker[q][i].pc = "instep"
    /\ ~worker[q][i].must_cancel
    /\ \E blocked \in BOOLEAN :
         IF blocked
         THEN Leave(q, i, "ERRORED")
         ELSE /\ worker' = [worker EXCEPT ![q][i].pc = "run"]
              /\ UNCHANGED browser_semaphore
    /\ UNCHANGED <<call, capacity, race, agent>>

\* lines 917-920: agent.run returns its history, or raises (caught at
\* line 1000)
WRunDone(q, i) ==
    /\ worker[q][i].pc = "run"
    /\ ~worker[q][i].must_cancel
    /\ \E returned \in BOOLEAN :
         IF returned
         THEN /\ worker' = [worker EXCEPT ![q][i].pc = "extract"]
              /\ UNCHANGED browser_semaphore
         ELSE Leave(q, i, "ERRORED")
    /\ UNCHANGED <<call, capacity, race, agent>>

\* The timeout handler taken for the end of the race: it sets the flag.
WTimeoutEndsRace(q, i) ==
    /\ worker[q][i].pc \in Running
    /\ ~worker[q][i].must_cancel
    /\ Leave(q, i, "TIMED_OUT")
    /\ race' = [race EXCEPT ![q].cancel = TRUE]
    /\ UNCHANGED <<call, capacity, agent>>

\* lines 917-920, 996-997: wait_for cuts agent.run at WORKER_TIMEOUT, the
\* callback included
WTimeout(q, i) ==
    /\ worker[q][i].pc \in Running
    /\ ~worker[q][i].must_cancel
    /\ Leave(q, i, "TIMED_OUT")
    /\ UNCHANGED <<call, capacity, race, agent>>

\* lines 959-970: what `cleaned` can hold ahead of line 972.  The passes
\* end with some payload; when the validator does not accept it and a page
\* was seen, the rows of the page scrape, if it gives any, take its place.
Extracted ==
    { LET js_data == js_scrape_procurement(sel[3])
      IN  IF ScrapeDue(sel[1], sel[2]) /\ truthy(js_data)
          THEN js_data ELSE sel[1] :
        sel \in Payloads \X BOOLEAN \X {Raised, List(<<>>), Rows} }

\* lines 922-970: the extraction passes and the page-scrape fallback end
\* with some payload in `cleaned`.
WExtract(q, i) ==
    /\ worker[q][i].pc = "extract"
    /\ ~worker[q][i].must_cancel
    /\ \E cleaned \in Extracted :
         worker' = [worker EXCEPT ![q][i].pc = "validated",
                                  ![q][i].cleaned = cleaned]
    /\ UNCHANGED <<call, capacity, browser_semaphore, race, agent>>

\* line 972 (and 993-994): first look at the validator and the flag
WCheck(q, i) ==
    /\ worker[q][i].pc = "validated"
    /\ IF FirstCheck(worker[q][i].cleaned, race[q].cancel)
       THEN /\ worker' = [worker EXCEPT ![q][i].pc = "lockwait"]
            /\ UNCHANGED browser_semaphore
       ELSE Leave(q, i, "INVALID")
    /\ UNCHANGED <<call, capacity, race, agent>>

\* line 973: async with winner_lock
WLock(q, i) ==
    /\ worker[q][i].pc = "lockwait"
    /\ ~worker[q][i].must_cancel
    /\ race[q].winner_lock = 0
    /\ race' = [race EXCEPT ![q].winner_lock = i]
    /\ worker' = [worker EXCEPT ![q][i].pc = "inlock"]
    /\ UNCHANGED <<call, capacity, browser_semaphore, agent>>

\* The with block of line 973 stretched over lines 978-992: the lock is
\* still held when the claim has been made.
WClaimHolds(q, i) ==
    /\ worker[q][i].pc = "inlock"
    /\ IF Recheck(race[q].cancel)
       THEN /\ Leave(q, i, "INVALID")
            /\ race' = [race EXCEPT ![q].winner_lock = 0]
       ELSE /\ worker' = [worker EXCEPT ![q][i].pc = "claimed"]
            /\ race' = [race EXCEPT ![q].cancel = EventSet(@),
                                    ![q].claimed = @ \cup {i}]
            /\ UNCHANGED browser_semaphore
    /\ UNCHANGED <<call, capacity, agent>>

\* lines 974-976: under the lock, return if the flag is set, else set it;
\* the lock is released on the way out of the with block either way.
WClaim(q, i) ==
    /\ worker[q][i].pc = "inlock"
    /\ IF Recheck(race[q].cancel)
       THEN /\ Leave(q, i, "INVALID")
            /\ race' = [race EXCEPT ![q].winner_lock = 0]
       ELSE /\ worker' = [worker EXCEPT ![q][i].pc = "claimed"]
            /\ race' = [race EXCEPT ![q].winner_lock = 0,
                                    ![q].cancel = EventSet(@),
                                    ![q].claimed = @ \cup {i}]
            /\ UNCHANGED browser_semaphore
    /\ UNCHANGED <<call, capacity, agent>>

\* The put of line 992 moved ahead of the dumps.
WDumpAfterPut(q, i) ==
    /\ worker[q][i].pc = "claimed"
    /\ LET outcome == [wid |-> i, data |-> worker[q][i].cleaned,
                       steps |-> worker[q][i].steps, video_url |-> "None"]
       IN race' = [race EXCEPT ![q].q = Append(@, outcome),
                               ![q].puts = @ + 1,
                               ![q].sent = Append(@, outcome)]
    /\ \E dumped \in BOOLEAN :
         Leave(q, i, IF dumped THEN "VALID" ELSE "ERRORED")
    /\ UNCHANGED <<call, capacity, agent>>

\* lines 978-981: the screenshot dumps and _ensure_frames run outside any
\* inner try; an exception of theirs is caught at line 1000.
WDump(q, i) ==
    /\ worker[q][i].pc = "claimed"
    /\ \E dumped \in BOOLEAN :
         IF dumped
         THEN /\ worker' = [worker EXCEPT ![q][i].pc = "video"]
              /\ UNCHANGED browser_semaphore
         ELSE Leave(q, i, "ERRORED")
    /\ UNCHANGED <<call, capacity, race, agent>>

\* Lines 984-990 without their try: a failure of the video is caught at
\* line 1000 and nothing is put.
WPutUnlessVideoFails(q, i) ==
    /\ worker[q][i].pc = "video"
    /\ ~worker[q][i].must_cancel
    /\ \E vu \in VideoUrls :
         IF vu = "None"
         THEN /\ Leave(q, i, "ERRORED")
              /\ UNCHANGED race
         ELSE LET outcome == [wid |-> i, data |-> worker[q][i].cleaned,
                              steps |-> worker[q][i].steps, video_url |-> vu]
              IN /\ race' = [race EXCEPT ![q].q = Append(@, outcome),
                                         ![q].puts = @ + 1,
                                         ![q].sent = Append(@, outcome)]
                 /\ Leave(q, i, "VALID")
    /\ UNCHANGED <<call, capacity, agent>>

\* lines 983-992: the video is built (a failure leaves video_url None),
\* the outcome is put on the queue, and the worker leaves.
WPut(q, i) ==
    /\ worker[q][i].pc = "video"
    /\ ~worker[q][i].must_cancel
    /\ \E vu \in VideoUrls :
         LET outcome == [wid |-> i, data |-> worker[q][i].cleaned,
                         steps |-> worker[q][i].steps, video_url |-> vu]
         IN race' = [race EXCEPT ![q].q = Append(@, outcome),
                                 ![q].puts = @ + 1,
                                 ![q].sent = Append(@, outcome)]
    /\ Leave(q, i, "VALID")
    /\ UNCHANGED <<call, capacity, agent>>

\* A cancellation at the semaphore that takes a slot away with it.
WCancelledTakesSlot(q, i) ==
    /\ worker[q][i].must_cancel
    /\ \/ /\ worker[q][i].pc = "acquire"
          /\ worker' = [worker EXCEPT ![q][i].pc = "CANCELLED",
                                      ![q][i].must_cancel = FALSE,
                                      ![q][i].exc = TRUE]
          /\ browser_semaphore' = browser_semaphore - 1
       \/ /\ worker[q][i].pc \in Suspended \ {"acquire"}
          /\ Leave(q, i, "CANCELLED")
    /\ UNCHANGED <<call, capacity, race, agent>>

\* Task.cancel() takes effect where the task is suspended.  While waiting
\* for the semaphore the coroutine is outside the try block: CancelledError
\* leaves it with the folder in place and no slot taken.  Inside the try
\* block it is caught at line 998, and the finally clause and the semaphore
\* exit follow.
WCancelled(q, i) ==
    /\ worker[q][i].must_cancel
    /\ \/ /\ worker[q][i].pc = "acquire"
          /\ worker' = [worker EXCEPT ![q][i].pc = "CANCELLED",
                                      ![q][i].must_cancel = FALSE,
                                      ![q][i].exc = TRUE]
          /\ UNCHANGED browser_semaphore
       \/ /\ worker[q][i].pc \in Suspended \ {"acquire"}
          /\ Leave(q, i, "CANCELLED")
    /\ UNCHANGED <<call, capacity, race, agent>>

\* --------------------------------------------------------------------- _race
\* lines 1012-1021: fresh queue, event and lock, one task per proxy
RaceStart(q, K) ==
    /\ race' = [race EXCEPT ![q] = [NoRace EXCEPT !.pc = "wait",
                                                  !.pending = 1..K,
                                                  !.tasks = K]]
    /\ worker' = [worker EXCEPT ![q] =
                    [i \in Workers |-> IF i <= K THEN NewTask ELSE NoTask]]

\* lines 1022-1038: asyncio.wait returns once a pending task is done (the
\* tasks were scheduled at lines 1015-1018, ahead of this wake-up, so every
\* one of them has run to its first await by then); the queue is polled; the loop goes on while tasks are pending and there is
\* no winner; otherwise the finally clause sets the flag and cancels every
\* task that is not done (no await in between, so it is one step).
RaceWake(q) ==
    /\ race[q].pc = "wait"
    /\ LET done    == {i \in race[q].pending : Done(q, i)}
           pending == race[q].pending \ done
           winner  == Poll(race[q].q)
           rest    == IF winner # <<>> THEN Tail(race[q].q) ELSE race[q].q
       IN /\ done # {}
          /\ \A i \in 1..race[q].tasks : worker[q][i].pc # "created"
          /\ IF pending # {} /\ winner = <<>>
             THEN /\ race' = [race EXCEPT ![q].pending = pending]
                  /\ UNCHANGED worker
             ELSE /\ race' = [race EXCEPT ![q].pending = pending,
                                          ![q].winner = winner,
                                          ![q].q = rest,
                                          ![q].cancel = EventSet(@),
                                          ![q].pc = "gather"]
                  /\ worker' = [worker EXCEPT ![q] =
                       [i \in Workers |->
                          IF i <= race[q].tasks /\ ~Done(q, i)
                          THEN [worker[q][i] EXCEPT !.must_cancel = TRUE]
                          ELSE worker[q][i]]]
    /\ UNCHANGED <<call, capacity, browser_semaphore, agent>>

\* line 1039: gather returns when every task is done
Drained(q) == \A i \in 1..race[q].tasks : Done(q, i)

\* lines 1039-1040
RaceReturn(q) ==
    /\ race[q].pc = "gather"
    /\ Drained(q)
    /\ race' = [race EXCEPT
                  ![q].pc = "returned",
                  ![q].raised = GatherRaises(\E i \in 1..race[q].tasks :
                                                worker[q][i].exc)]
    /\ UNCHANGED <<call, capacity, browser_semaphore, worker, agent>>

\* A direct call of _race(request, proxies) with K proxies.
RaceCall(q, K) ==
    /\ race[q].pc = "idle"
    /\ RaceStart(q, K)
    /\ UNCHANGED <<call, capacity, browser_semaphore, agent>>

\* ----------------------------------------------------------------- run_agent
\* line 1055: for rnd in range(1, RACE_MAX_ROUNDS + 1)
InRangeAlways(rnd) == TRUE
InRangeShort(rnd) == rnd < RACE_MAX_ROUNDS
InRange(rnd) == rnd <= RACE_MAX_ROUNDS

\* line 1057: `await _race(...)` has returned
NotAwaited(q) == TRUE
Awaited(q) == race[q].pc = "returned"

\* line 1061: AgentResponse(video_url=vu, steps_taken=s, extracted_data=data,
\* worker_id=wid)
AgentResponseNoSteps(wid, data, s, vu) ==
    [video_url |-> vu, steps_taken |-> 0, extracted_data |-> data,
     worker_id |-> wid]
AgentResponse(wid, data, s, vu) ==
    [video_url |-> vu, steps_taken |-> s, extracted_data |-> data,
     worker_id |-> wid]

\* line 1057: the proxies of round rnd are [pool[0]], whatever the round
RoundSlice(pool, rnd) == <<pool[1]>>

\* lines 1055-1057: a round starts: _race is called with [pool[0]]
AgentRound(q) ==
    /\ agent[q].pc = "loop"
    /\ InRange(agent[q].rnd)
    /\ RaceStart(q, Len(RoundSlice(agent[q].pool, agent[q].rnd)))
    /\ agent' = [agent EXCEPT
                   ![q].pc = "race", ![q].races = @ + 1,
                   ![q].slices =
                       Append(@, RoundSlice(agent[q].pool, agent[q].rnd))]
    /\ UNCHANGED <<call, capacity, browser_semaphore>>

\* lines 1058-1062: the race is back; a winner is returned as the response,
\* otherwise the loop goes to the next round
AgentRoundEnd(q) ==
    /\ agent[q].pc = "race"
    /\ Awaited(q)
    /\ IF race[q].winner # <<>>
       THEN LET w == race[q].winner[1]
            IN agent' = [agent EXCEPT
                   ![q].pc = "done",
                   ![q].outcomes = @ + race[q].puts,
                   ![q].response =
                       AgentResponse(w.wid, w.data, w.steps, w.video_url)]
       ELSE agent' = [agent EXCEPT ![q].pc = "loop", ![q].rnd = @ + 1,
                                   ![q].outcomes = @ + race[q].puts]
    /\ UNCHANGED <<call, capacity, browser_semaphore, worker, race>>

\* lines 1064-1065: the rounds are exhausted
AgentExhausted(q) ==
    /\ agent[q].pc = "loop"
    /\ ~InRange(agent[q].rnd)
    /\ agent' = [agent EXCEPT ![q].pc = "done", ![q].response = NoResponse]
    /\ UNCHANGED <<call, capacity, browser_semaphore, worker, race>>

\* ------------------------------------------------------------ specifications
\* line 67: the semaphore is built with the configured capacity.  The
\* shipped value is MAX_BROWSERS; larger configured values are covered too.
\* lines 84-89, 1054: every request snapshots the one proxy pool; the
\* shipped pool holds one descriptor, larger pools are covered too.
EngineInit ==
    /\ capacity \in MAX_BROWSERS..MaxCapacity
    /\ browser_semaphore = capacity
    /\ worker = [q \in Requests |-> [i \in Workers |-> NoTask]]
    /\ race = [q \in Requests |-> NoRace]
    /\ \E n \in 1..MaxPool :
         agent = [q \in Requests |-> [NewAgent EXCEPT !.pool = ProxyPool(n)]]

Init == EngineInit /\ call = NoCall

\* Everything a worker does by itself.
WorkerRuns(q, i) ==
    \/ WStart(q, i)
    \/ WAcquire(q, i)
    \/ WWarmup(q, i)
    \/ WStep(q, i)
    \/ WStepBody(q, i)
    \/ WRunDone(q, i)
    \/ WTimeout(q, i)
    \/ WExtract(q, i)
    \/ WCheck(q, i)
    \/ WLock(q, i)
    \/ WClaim(q, i)
    \/ WDump(q, i)
    \/ WPut(q, i)

\* One request served by run_agent.  With one task per race no task is
\* ever pending when the coordinator reaches line 1036, so Task.cancel() is
\* never called under run_agent.
Serve(q) ==
    \/ AgentRound(q)
    \/ AgentRoundEnd(q)
    \/ AgentExhausted(q)
    \/ RaceWake(q)
    \/ RaceReturn(q)
    \/ \E i \in Workers : WorkerRuns(q, i)

\* Several requests served at a time on the one event loop.
Next == \E q \in Requests : Serve(q)

Spec == Init /\ [][Next]_vars

\* The program as shipped: one slot (line 66) and the pool of lines 84-89.
Shipped ==
    /\ Init
    /\ capacity = MAX_BROWSERS
    /\ agent[1].pool = ProxyPool(1)

\* A second caller on the same event loop and semaphore: one call of _race
\* with one proxy, as a round of run_agent makes it; the caller is request 2.
Contender ==
    \/ RaceCall(2, 1)
    \/ RaceWake(2)
    \/ RaceReturn(2)
    \/ WorkerRuns(2, 1)

\* One request served by run_agent while the second caller competes for
\* the slot, with the event loop's scheduling: a task that can take a step
\* takes one; a timer that is due fires, an engine run returns or is cut,
\* a slot that is free is given to a waiter.
Fair ==
    /\ Shipped
    /\ [][Serve(1) \/ Contender]_vars
    /\ WF_vars(Serve(1)) /\ WF_vars(Contender)

\* One request on its own.
AgentNext == Serve(1)

AgentSpec == Init /\ [][AgentNext]_vars

\* One call of _race with K proxies; the caller is request 1.
RaceNext ==
    \/ \E K \in 1..MaxWorkers : RaceCall(1, K)
    \/ RaceWake(1)
    \/ RaceReturn(1)
    \/ \E i \in Workers : WorkerRuns(1, i)
    \/ \E i \in Workers : WCancelled(1, i)

\* _race does not look at the pool: the shipped one stands for all.
RaceInit == Init /\ agent[1].pool = ProxyPool(1)

RaceSpec == RaceInit /\ [][RaceNext]_vars

\* The same with the event loop's scheduling: a timer that is due fires
\* (lines 917-920), and a cancellation that was requested is delivered
\* (line 1038).
RaceFair ==
    /\ RaceSpec
    /\ \A i \in Workers : WF_vars(WTimeout(1, i)) /\ WF_vars(WCancelled(1, i))

\* Two calls of _race on the one event loop and the one semaphore: request
\* 1 with K proxies, whose coordinator cancels the tasks it leaves pending,
\* and request 2 with one proxy.  The semaphore has the shipped capacity
\* (line 66), the one under which workers wait the most.
LimiterSpec ==
    Shipped /\ [][RaceNext \/ Contender]_vars

\* ---------------------------------------------- helpers taken on their own

\* The engine at rest, while one helper call is examined.
Quiet ==
    /\ EngineInit
    /\ capacity = MAX_BROWSERS
    /\ agent[1].pool = ProxyPool(1)

\* ------------------------------------------------------------------ _is_valid

\* A text of `total` characters (or as many as it takes) holding the k-th
\* denylisted phrase, in lower or upper case (str.upper, character by
\* character), after `before` characters.
PhraseText(k, shout, before, total) ==
    LET upper(chars) ==
            [i \in 1..Len(chars) |->
                IF \E u \in 1..Len(LOWER) : LOWER[u] = chars[i]
                THEN UPPER[CHOOSE u \in 1..Len(LOWER) : LOWER[u] = chars[i]]
                ELSE chars[i]]
        phrase == IF shout THEN upper(bad[k]) ELSE bad[k]
        after  == IF total > before + Len(phrase)
                  THEN total - before - Len(phrase) ELSE 0
    IN  Str(Filler(before) \o phrase \o Filler(after))

\* A row whose only field holds a denylisted phrase.
BlockedRow == Dict(<<"tender_title">>, <<Str(bad[7])>>)

SeqsUpTo(S, n) == UNION {[1..m -> S] : m \in 0..n}

\* The payloads the validator is given: texts with and without a phrase,
\* of lengths on both sides of MIN_TEXT; values that are neither text, list
\* nor mapping; lists of up to MaxItems elements; mappings of up to MaxItems
\* entries.
Results ==
    LET lengths  == {0, MIN_TEXT - 1, MIN_TEXT, MIN_TEXT + MaxPad}
        elements == {None, Str(<<>>), Str(bad[7]), Num(0), Row, BlockedRow,
                     List(<<>>)}
        values   == {None, Str(Filler(1)), Str(bad[7]), Num(0), List(<<>>),
                     List(<<Num(1)>>), Rows, List(<<BlockedRow>>),
                     Dict(<<"count">>, <<Num(1)>>)}
        keys     == <<"rows", "count", "status">>
    IN  {PhraseText(k, shout, before, total) :
            k \in 1..Len(bad), shout \in BOOLEAN,
            before \in 0..MaxPad, total \in lengths}
        \cup {Str(Filler(n)) : n \in lengths}
        \cup {None, Num(0), Num(1), Bool(FALSE), Bool(TRUE), Tuple(<<>>)}
        \cup {List(items) : items \in SeqsUpTo(elements, MaxItems)}
        \cup {Dict(SubSeq(keys, 1, Len(vals)), vals) :
                vals \in SeqsUpTo(values, MaxItems)}

ValidatorInit ==
    /\ Quiet
    /\ call \in {[pc |-> "is_valid", result |-> r] : r \in Results}

\* One call of _is_valid.
Validate ==
    /\ call.pc = "is_valid"
    /\ call' = [pc |-> "returned", result |-> call.result,
                verdict |-> is_valid(call.result)]
    /\ UNCHANGED engine

ValidatorSpec == ValidatorInit /\ [][Validate]_vars

\* ---------------------------------------------------------- _clean_result

\* The field names of the model's mappings, spelled out.
Spell == [tender_title     |-> <<"t", "e", "n", "d", "e", "r", "_",
                                "t", "i", "t", "l", "e">>,
          reference_number |-> <<"r", "e", "f", "e", "r", "e", "n", "c", "e",
                                 "_", "n", "u", "m", "b", "e", "r">>,
          rows   |-> <<"r", "o", "w", "s">>,
          count  |-> <<"c", "o", "u", "n", "t">>,
          status |-> <<"s", "t", "a", "t", "u", "s">>]

\* The elements of a sequence of texts, joined with ", ".
RECURSIVE Joined(_)
Joined(parts) ==
    IF parts = <<>> THEN <<>>
    ELSE IF Len(parts) = 1 THEN parts[1]
    ELSE parts[1] \o <<",", " ">> \o Joined(Tail(parts))

\* json.dumps: the JSON document of a value
RECURSIVE dumps(_)
dumps(v) ==
    IF v = None THEN <<"n", "u", "l", "l">>
    ELSE IF isinstance(v, "bool")
         THEN IF v.b THEN <<"t", "r", "u", "e">>
              ELSE <<"f", "a", "l", "s", "e">>
    ELSE IF isinstance(v, "int")
         THEN <<(<<"0", "1", "2", "3", "4", "5", "6", "7", "8", "9">>)[v.n + 1]>>
    ELSE IF isinstance(v, "str") THEN <<"\"">> \o v.chars \o <<"\"">>
    ELSE IF isinstance(v, "list")
         THEN <<"[">>
              \o Joined([i \in 1..Len(v.items) |-> dumps(v.items[i])])
              \o <<"]">>
    ELSE <<"{">>
         \o Joined([i \in 1..Len(v.keys) |->
                <<"\"">> \o Spell[v.keys[i]] \o <<"\"", ":", " ">>
                \o dumps(v.values[i])])
         \o <<"}">>

\* The values whose documents the engine's texts can hold.
JsonValues == {None, Num(0), Str(bad[7]), List(<<>>), Row, Rows,
               Dict(<<"rows">>, <<Rows>>)}

\* A document less its white space outside strings.
RECURSIVE Compact(_, _)
Compact(chars, quoted) ==
    IF chars = <<>> THEN <<>>
    ELSE IF Head(chars) = " " /\ ~quoted THEN Compact(Tail(chars), quoted)
    ELSE <<Head(chars)>>
         \o Compact(Tail(chars),
                    IF Head(chars) = "\"" THEN ~quoted ELSE quoted)

\* json.loads: the value of a document, or the failure to parse it; a text
\* is the document of a value when the two agree up to white space
json_loads(chars) ==
    LET doc == Compact(chars, FALSE)
        is(v) == Compact(dumps(v), FALSE) = doc
    IN  IF \E v \in JsonValues : is(v)
        THEN CHOOSE v \in JsonValues : is(v)
        ELSE Raised

\* str.strip
strip(chars) ==
    IF \A i \in 1..Len(chars) : chars[i] = " " THEN <<>>
    ELSE LET first == CHOOSE i \in 1..Len(chars) :
                        /\ chars[i] # " "
                        /\ \A j \in 1..(i - 1) : chars[j] = " "
             last  == CHOOSE i \in 1..Len(chars) :
                        /\ chars[i] # " "
                        /\ \A j \in (i + 1)..Len(chars) : chars[j] = " "
         IN  SubSeq(chars, first, last)

\* pat stands in chars at position i
At(chars, pat, i) ==
    /\ i >= 1
    /\ i + Len(pat) - 1 <= Len(chars)
    /\ SubSeq(chars, i, i + Len(pat) - 1) = pat

\* the least element of a non-empty set of positions
Least(S) == CHOOSE x \in S : \A y \in S : x <= y

\* the first position from `from` on that holds no white space, or the one
\* past the end
FirstNonBlank(chars, from) ==
    Least({p \in from..(Len(chars) + 1) :
            p = Len(chars) + 1 \/ chars[p] # " "})

\* re.search with one non-greedy group gives the leftmost match, and of
\* those the shortest: <<start, first of group, last of group>>, or <<>>.

\* line 693: the text between <r> and the next </r>
TagSearch(chars) ==
    LET closings(from) ==
            {j \in from..Len(chars) : At(chars, <<"<", "/", "r", ">">>, j)}
        starts == {i \in 1..Len(chars) :
                    /\ At(chars, <<"<", "r", ">">>, i)
                    /\ closings(i + 3) # {}}
    IN  IF starts = {} THEN <<>>
        ELSE LET i == Least(starts)
             IN  <<i, i + 3, Least(closings(i + 3)) - 1>>

\* from an `open` to the next `close`, taken from position `from` on
Bracketed(chars, open, close, from) ==
    LET starts == {i \in from..Len(chars) :
                    /\ chars[i] = open
                    /\ \E b \in (i + 1)..Len(chars) : chars[b] = close}
    IN  IF starts = {} THEN <<>>
        ELSE LET i == Least(starts)
             IN  <<i, i, Least({b \in (i + 1)..Len(chars) : chars[b] = close})>>

\* line 708, first pattern: a bracket, a brace, text, a brace, a bracket,
\* with nothing but white space between bracket and brace
RowsSearch(chars) ==
    LET ends(i) ==
            LET a == FirstNonBlank(chars, i + 1)
            IN  IF a > Len(chars) \/ chars[a] # "{" THEN {}
                ELSE {b \in (a + 2)..Len(chars) :
                        /\ chars[b] = "]"
                        /\ \E e \in (a + 1)..(b - 1) :
                              /\ chars[e] = "}"
                              /\ FirstNonBlank(chars, e + 1) = b}
        starts == {i \in 1..Len(chars) : chars[i] = "[" /\ ends(i) # {}}
    IN  IF starts = {} THEN <<>>
        ELSE LET i == Least(starts)
             IN  <<i, i, Least(ends(i))>>

\* line 699: a fence, an optional `json`, a braced or bracketed group, a
\* fence, with white space allowed around the group; the character of the
\* fence, which a TLA+ string cannot hold, is written by its name
Fence == <<"backtick", "backtick", "backtick">>

FenceSearch(chars) ==
    LET groups(i) ==
            LET p == IF At(chars, <<"j", "s", "o", "n">>, i + 3)
                     THEN i + 7 ELSE i + 3
                a == FirstNonBlank(chars, p)
            IN  IF a > Len(chars) \/ chars[a] \notin {"{", "["} THEN {}
                ELSE {<<i, a, b>> : b \in
                        {b \in (a + 1)..Len(chars) :
                            /\ chars[b] = (IF chars[a] = "{" THEN "}"
                                           ELSE "]")
                            /\ At(chars, Fence,
                                  FirstNonBlank(chars, b + 1))}}
        starts == {i \in 1..Len(chars) :
                    At(chars, Fence, i) /\ groups(i) # {}}
    IN  IF starts = {} THEN <<>>
        ELSE LET i == Least(starts)
             IN  CHOOSE m \in groups(i) : \A n \in groups(i) : m[3] <= n[3]

\* the group of a match
Group(chars, m) == SubSeq(chars, m[2], m[3])

\* lines 708-715: the three patterns in turn, the first whose match parses
Embedded(chars) ==
    LET found == <<RowsSearch(chars),
                   Bracketed(chars, "{", "}", 1),
                   Bracketed(chars, "[", "]", 1)>>
        parses(p) == /\ found[p] # <<>>
                     /\ json_loads(Group(chars, found[p])) # Raised
    IN  IF \E p \in 1..3 : parses(p)
        THEN json_loads(Group(chars,
                found[CHOOSE p \in 1..3 :
                        parses(p) /\ \A o \in 1..(p - 1) : ~parses(o)]))
        ELSE Str(chars)

\* lines 689-716: _clean_result
clean_result(text) ==
    IF text.chars = <<>> THEN text
    ELSE
    LET stripped == strip(text.chars)
        tag      == TagSearch(stripped)
        inner    == IF tag = <<>> THEN <<>>
                    ELSE strip(Group(stripped, tag))
        chars    == IF tag = <<>> THEN stripped ELSE inner
        fence    == FenceSearch(chars)
        fenced   == IF fence = <<>> THEN <<>>
                    ELSE strip(Group(chars, fence))
    IN  IF tag # <<>> /\ json_loads(inner) # Raised THEN json_loads(inner)
        ELSE IF fence # <<>> /\ json_loads(fenced) # Raised
             THEN json_loads(fenced)
        ELSE IF json_loads(chars) # Raised THEN json_loads(chars)
        ELSE Embedded(chars)

\* ---------------------------------------------- the extraction passes

\* lines 950 and 953: the texts of actions that are not results
skip == <<<<"C", "l", "i", "c", "k", "e", "d">>, <<"T", "y", "p", "e", "d">>,
          <<"W", "a", "i", "t", "e", "d">>,
          <<"S", "c", "r", "o", "l", "l", "e", "d">>, <<"S", "e", "a", "r", "c", "h", "e", "d">>,
          <<"N", "a", "v", "i", "g", "a", "t", "e", "d">>>>

\* str.startswith
startswith(chars, prefix) == At(chars, prefix, 1)

\* lines 927-934: the content of the last action flagged done, `or ""`
last_done(results) ==
    IF \E i \in 1..Len(results) : results[i].is_done
    THEN LET i == CHOOSE i \in 1..Len(results) :
                    /\ results[i].is_done
                    /\ \A j \in (i + 1)..Len(results) : ~results[j].is_done
         IN  IF truthy(results[i].extracted_content)
             THEN results[i].extracted_content ELSE Str(<<>>)
    ELSE Str(<<>>)

\* lines 936-946: the content of the last step whose done result has any;
\* every step of the model has one result
last_done_with_content(results) ==
    IF \E i \in 1..Len(results) :
            results[i].is_done /\ truthy(results[i].extracted_content)
    THEN LET i == CHOOSE i \in 1..Len(results) :
                    /\ results[i].is_done
                    /\ truthy(results[i].extracted_content)
                    /\ \A j \in (i + 1)..Len(results) :
                          ~(/\ results[j].is_done
                            /\ truthy(results[j].extracted_content))
         IN  results[i].extracted_content
    ELSE Str(<<>>)

\* lines 949-955: the last content that is not the echo of an action
last_meaningful(results) ==
    LET meaningful(t) ==
            /\ truthy(t)
            /\ ~\E k \in 1..Len(skip) : startswith(t.chars, skip[k])
    IN
    IF \E i \in 1..Len(results) : meaningful(results[i].extracted_content)
    THEN LET i == CHOOSE i \in 1..Len(results) :
                    /\ meaningful(results[i].extracted_content)
                    /\ \A j \in (i + 1)..Len(results) :
                          ~meaningful(results[j].extracted_content)
         IN  results[i].extracted_content
    ELSE Str(<<>>)

\* The texts an engine run can leave as its final result.
FinalResults ==
    {Raised, None, Str(bad[7]), Str(dumps(Rows)),
     Str(<<" ", "<", "r", ">">> \o dumps(Rows) \o <<"<", "/", "r", ">">>),
     Str(Fence \o <<"j", "s", "o", "n", " ">> \o dumps(Rows) \o Fence),
     Str(<<"o", "k", ":", " ">> \o dumps(Rows)),
     Str(<<"o", "k", ":", " ">> \o dumps(Row))}

\* The action results of a history, with the contents they can carry.
ActionResults ==
    SeqsUpTo([is_done : BOOLEAN,
              extracted_content : {None, Str(skip[1] \o <<" ", "x">>),
                                   Str(bad[7]), Str(dumps(Rows))}],
             MaxActions)

ExtractInit ==
    /\ Quiet
    /\ call \in [pc : {"final_result"}, final : FinalResults,
                 results : ActionResults, page : BOOLEAN,
                 evaluated : {Raised, List(<<>>), Rows},
                 rt : {Str(<<>>)}, cleaned : {None},
                 tried : {<<>>}, yielded : {<<>>}]

\* One pass is made: it is noted, and so is what it gave if it gave any.
Tried(pass, text) ==
    [call EXCEPT !.tried = @ \o <<pass>>,
                 !.rt = IF truthy(text) THEN text ELSE call.rt,
                 !.yielded = IF truthy(text) THEN @ \o <<pass>> ELSE @]

\* lines 923-928: history.final_result()
PassFinal ==
    /\ call.pc = "final_result"
    /\ call' = [Tried("final_result",
                      IF call.final = Raised THEN None ELSE call.final)
                    EXCEPT !.pc = "done_action"]
    /\ UNCHANGED engine

\* lines 929-956: the three passes over the history, each under `if not rt`
PassHistory(pass, next, text) ==
    /\ call.pc = pass
    /\ call' = IF truthy(call.rt) THEN [call EXCEPT !.pc = next]
               ELSE [Tried(pass, text) EXCEPT !.pc = next]
    /\ UNCHANGED engine

PassDoneAction ==
    PassHistory("done_action", "done_history", last_done(call.results))

PassDoneHistory ==
    PassHistory("done_history", "last_text",
                last_done_with_content(call.results))

PassLastText ==
    PassHistory("last_text", "clean", last_meaningful(call.results))

\* line 959
Clean ==
    /\ call.pc = "clean"
    /\ call' = [call EXCEPT !.pc = "scrape", !.cleaned = clean_result(call.rt)]
    /\ UNCHANGED engine

\* lines 962-970: the page scrape
Scrape ==
    /\ call.pc = "scrape"
    /\ LET js_data == js_scrape_procurement(call.evaluated)
       IN  call' =
             IF ScrapeDue(call.cleaned, call.page)
             THEN [call EXCEPT !.pc = "extracted",
                               !.tried = @ \o <<"scrape">>,
                               !.cleaned = IF truthy(js_data)
                                           THEN js_data ELSE @]
             ELSE [call EXCEPT !.pc = "extracted"]
    /\ UNCHANGED engine

ExtractSpec ==
    ExtractInit /\ [][\/ PassFinal \/ PassDoneAction \/ PassDoneHistory
                      \/ PassLastText \/ Clean \/ Scrape]_vars

\* ----------------------------------------------------------- _warmup_extended

\* lines 193-199 and 215: the warm-up sites are shuffled and the first
\* WARMUP_SITES of them are visited
Shuffled ==
    LET SITES == {"neverssl.com", "example.com", "httpforever.com",
                  "detectportal.firefox.com"}
    IN  {sites \in [1..WARMUP_SITES -> SITES] :
            \A i, j \in 1..WARMUP_SITES : i # j => sites[i] # sites[j]}

\* lines 226 and 228: `except Exception` with a handler that only prints;
\* the code goes on at the place that follows the try statement
Fatal(next) == "errored"

NonFatal(next) == next

\* The positions of a worker inside `await _warmup_extended(...)`.
Warming == {"warmup", "context", "site", "close"}

WarmupInit ==
    /\ Quiet
    /\ call \in [pc : {"warmup"}, sites : Shuffled, i : {0}, success : {0},
                 failures : {<<>>}]

\* lines 188-190: without Camoufox there is no warm-up
WarmupEnter ==
    /\ call.pc = "warmup"
    /\ \E available \in BOOLEAN :
         call' = [call EXCEPT
                    !.pc = IF available THEN "context" ELSE "make_session"]
    /\ UNCHANGED engine

\* lines 201-213: the browser context is opened and a page made in it
WarmupContext ==
    /\ call.pc = "context"
    /\ \E opened \in BOOLEAN :
         call' = IF opened
                 THEN [call EXCEPT !.pc = "site", !.i = 1]
                 ELSE [call EXCEPT !.pc = NonFatal("make_session"),
                                   !.failures = @ \o <<"context">>]
    /\ UNCHANGED engine

\* lines 215-225: one site is visited
WarmupSite ==
    /\ call.pc = "site"
    /\ LET next == IF call.i < WARMUP_SITES THEN "site" ELSE "close"
       IN  \E ok \in BOOLEAN :
             call' = IF ok
                     THEN [call EXCEPT !.pc = next, !.i = @ + 1,
                                       !.success = @ + 1]
                     ELSE [call EXCEPT !.pc = NonFatal(next), !.i = @ + 1,
                                       !.failures = @ \o <<call.sites[call.i]>>]
    /\ UNCHANGED engine

\* lines 201 and 227: the context is left, which closes the browser
WarmupClose ==
    /\ call.pc = "close"
    /\ \E closed \in BOOLEAN :
         call' = IF closed
                 THEN [call EXCEPT !.pc = "make_session"]
                 ELSE [call EXCEPT !.pc = NonFatal("make_session"),
                                   !.failures = @ \o <<"close">>]
    /\ UNCHANGED engine

\* Task.cancel() while the warm-up is suspended: CancelledError is not an
\* Exception, no handler of lines 181-229 takes it (line 998 does)
WarmupCancelled ==
    /\ call.pc \in Warming \ {"warmup"}
    /\ call' = [call EXCEPT !.pc = "cancelled"]
    /\ UNCHANGED engine

\* lines 904-917: the session and the Agent are made and the run is started;
\* an exception there is caught at line 1000
MakeSession ==
    /\ call.pc = "make_session"
    /\ \E built \in BOOLEAN :
         call' = [call EXCEPT !.pc = IF built THEN "run" ELSE "errored"]
    /\ UNCHANGED engine

WarmupSpec ==
    WarmupInit /\ [][\/ WarmupEnter \/ WarmupContext \/ WarmupSite
                     \/ WarmupClose \/ WarmupCancelled \/ MakeSession]_vars

\* ---------------------------------------------------------------------- _step

\* The classes of the errors a step can raise, each with its base class.
Bases == [BaseException       |-> "object",
          CancelledError      |-> "BaseException",
          Exception           |-> "BaseException",
          RuntimeError        |-> "Exception",
          NotImplementedError |-> "RuntimeError",
          ValueError          |-> "Exception",
          OSError             |-> "Exception",
          TimeoutError        |-> "OSError"]

\* issubclass(class, base)
RECURSIVE issubclass(_, _)
issubclass(class, base) ==
    \/ class = base
    \/ class \in DOMAIN Bases /\ issubclass(Bases[class], base)

\* What the helpers awaited in the body can raise.
Faults == {"CancelledError", "RuntimeError", "NotImplementedError",
           "ValueError", "TimeoutError"}

\* lines 891-896: the handlers of the body, tried in order; the first two
\* raise the error again, the third prints it
ReraisedIfCancelled(e) ==
    issubclass(e, "CancelledError")

Reraised(e) ==
    IF issubclass(e, "CancelledError") THEN TRUE
    ELSE IF issubclass(e, "RuntimeError") THEN TRUE
    ELSE IF issubclass(e, "Exception") THEN FALSE
    ELSE TRUE

\* The callback ends on error e, with c the locals as the body left them.
Handle(e, c) ==
    IF Reraised(e)
    THEN [c EXCEPT !.pc = "raised", !.err = e, !.exc = e]
    ELSE [c EXCEPT !.pc = "engine", !.err = e, !.printed = e]

\* line 861: `blocked_count[0] >= 2`, the reload is due
ReloadAtOnce(count) == count >= 1

ReloadDue(count) == count >= RELOAD_FROM

\* line 870: `blocked_count[0] >= 4`, the last look is due
AbortDue(count) == count >= ABORT_FROM

\* The positions inside the try statement of the callback.
StepBody == {"prepare", "blocked", "pace"}

\* looks lists what the calls of _is_blocked made in the current step
\* answered, streak counts the callbacks in a row, up to the current one,
\* whose first look found the page blocked, and aborted tells that line 873
\* raised (history, not program state).
StepInit ==
    /\ Quiet
    /\ call = [pc |-> "engine", steps |-> 0, proxy_checked |-> FALSE,
               page |-> FALSE, blocked_count |-> 0, reloaded |-> FALSE,
               err |-> "none", exc |-> "none", printed |-> "none",
               looks |-> <<>>, streak |-> 0, aborted |-> FALSE]

\* lines 827-831: the engine calls back; a set flag raises CancelledError
\* ahead of the try statement, otherwise the step is counted
StepEnter ==
    /\ call.pc = "engine"
    /\ call.steps < MaxCalls
    /\ \E flag \in BOOLEAN :
         call' = IF Checkpoint(flag)
                 THEN [call EXCEPT !.pc = "raised", !.err = "none",
                                   !.exc = "CancelledError"]
                 ELSE [call EXCEPT !.pc = "prepare", !.steps = @ + 1,
                                   !.err = "none", !.reloaded = FALSE,
                                   !.looks = <<>>,
                                   !.streak =
                                      IF call.looks # <<>> /\ call.looks[1]
                                      THEN @ ELSE 0]
    /\ UNCHANGED engine

\* lines 833-850: the session and the page are looked up (the callback
\* returns when either is missing), the proxy is verified at the first call,
\* the page is remembered, and the CAPTCHA solver is run
StepPrepare ==
    /\ call.pc = "prepare"
    /\ \E session \in BOOLEAN, page \in BOOLEAN,
          fault \in Faults \cup {"none"} :
         call' =
           IF ~session THEN [call EXCEPT !.pc = "engine"]
           ELSE LET c == [call EXCEPT !.proxy_checked = TRUE]
                IN  IF fault # "none"
                    THEN Handle(fault, [c EXCEPT !.page = @ \/ page])
                    ELSE IF ~page THEN [c EXCEPT !.pc = "engine"]
                    ELSE [c EXCEPT !.pc = "blocked", !.page = TRUE]
    /\ UNCHANGED engine

\* lines 852-875: the block check.  A blocked page is counted and looked at
\* again after a wait; from the RELOAD_FROM-th blocked step in a row on a
\* page still blocked is reloaded (a failed reload is only printed); from
\* the ABORT_FROM-th on a page blocked at one more look ends the worker by
\* a RuntimeError.  A page that is not blocked resets the count.
StepBlocked ==
    /\ call.pc = "blocked"
    /\ \E blocked \in BOOLEAN, still \in BOOLEAN, again \in BOOLEAN,
          fault \in Faults \cup {"none"} :
         LET count == IF blocked THEN call.blocked_count + 1 ELSE 0
             third == blocked /\ AbortDue(count)
             c == [call EXCEPT !.blocked_count = count,
                               !.reloaded = /\ blocked /\ still
                                            /\ ReloadDue(count),
                               !.looks = IF third
                                         THEN <<blocked, still, again>>
                                         ELSE IF blocked
                                         THEN <<blocked, still>>
                                         ELSE <<blocked>>,
                               !.streak = IF blocked THEN @ + 1 ELSE 0]
         IN  call' =
               IF fault # "none"
               THEN Handle(fault,
                        [call EXCEPT !.blocked_count =
                                        IF blocked THEN @ + 1 ELSE @,
                                     !.looks =
                                        IF blocked THEN <<TRUE>> ELSE <<>>,
                                     !.streak =
                                        IF blocked THEN @ + 1 ELSE @])
               ELSE IF third /\ again
               THEN Handle("RuntimeError", [c EXCEPT !.aborted = TRUE])
               ELSE [c EXCEPT !.pc = "pace"]
    /\ UNCHANGED engine

\* lines 877-890: the pacing delay, then the screenshot, whose failure is
\* printed inside a try of its own
StepFinish ==
    /\ call.pc = "pace"
    /\ \E fault \in Faults \cup {"none"} :
         call' = IF fault # "none" THEN Handle(fault, call)
                 ELSE [call EXCEPT !.pc = "engine"]
    /\ UNCHANGED engine

StepSpec ==
    StepInit /\ [][\/ StepEnter \/ StepPrepare \/ StepBlocked
                   \/ StepFinish]_vars

\* ----------------------------------------------------------- _capsolver_solve

\* What the service sends as the solution of a task.
Solution == Dict(<<"token">>, <<Str(Filler(MaxPad))>>)

\* line 346: d.get("solution", {}) of a ready reply
get_solution(reply) ==
    IF reply.has_solution THEN reply.solution ELSE Dict(<<>>, <<>>)

\* The replies to getTaskResult; a processing task has status and nothing
\* else.
Replies ==
    [status : {"ready"}, has_solution : {TRUE}, solution : {Solution, None}]
    \cup [status : {"ready"}, has_solution : {FALSE}]
    \cup [status : {"processing", "failed"}]

\* line 341: the loop goes round again
AnotherRoundAtLimit(polls) == polls <= POLL_LIMIT

AnotherRound(polls) == polls < POLL_LIMIT

\* The call returns.
Return(value, last) ==
    [call EXCEPT !.pc = "returned", !.result = value, !.last = last]

CapsolverInit ==
    /\ Quiet
    /\ call = [pc |-> "solve", polls |-> 0, clock |-> 0, result |-> None,
               last |-> "none", reply |-> [status |-> "none"]]

\* lines 323-324: without an API key nothing is asked
SolveEnter ==
    /\ call.pc = "solve"
    /\ \E key \in BOOLEAN :
         call' = IF key THEN [call EXCEPT !.pc = "create"]
                 ELSE Return(None, "no key")
    /\ UNCHANGED engine

\* lines 333-339: createTask; an error reply returns None, and so does any
\* exception (the request, the JSON, a reply without taskId) at line 350
CreateTask ==
    /\ call.pc = "create"
    /\ \E reply \in {"created", "error", "raises"} :
         call' = IF reply = "created" THEN [call EXCEPT !.pc = "loop"]
                 ELSE Return(None, reply)
    /\ UNCHANGED engine

\* lines 341-342: the head of the loop and the sleep ahead of each poll
PollWait ==
    /\ call.pc = "loop"
    /\ call' = IF AnotherRound(call.polls)
               THEN [call EXCEPT !.pc = "poll", !.clock = @ + POLL_INTERVAL]
               ELSE Return(None, "exhausted")
    /\ UNCHANGED engine

\* lines 343-349: one getTaskResult and what its reply leads to
PollReply ==
    /\ call.pc = "poll"
    /\ \/ \E reply \in Replies :
            call' =
              LET c == [call EXCEPT !.polls = @ + 1, !.reply = reply]
              IN  IF reply.status = "ready"
                  THEN [c EXCEPT !.pc = "returned", !.last = "ready",
                                 !.result = get_solution(reply)]
                  ELSE IF reply.status = "failed"
                  THEN [c EXCEPT !.pc = "returned", !.last = "failed",
                                 !.result = None]
                  ELSE [c EXCEPT !.pc = "loop", !.last = "processing"]
       \/ call' = [call EXCEPT !.pc = "returned", !.polls = @ + 1,
                               !.last = "raises", !.result = None]
    /\ UNCHANGED engine

CapsolverNext == SolveEnter \/ CreateTask \/ PollWait \/ PollReply

CapsolverSpec == CapsolverInit /\ [][CapsolverNext]_vars

\* ------------------------------------------------- create_and_upload_video

\* The PNG files of a frame folder, in the order of their names: each can
\* be opened as an image or not.
Folders == SeqsUpTo({"image", "unreadable"}, MaxFrames)

\* helpers.py lines 53-74: _get_valid_frames, the files that open as images
get_valid_frames(folder) ==
    SelectSeq(folder, LAMBDA file : file = "image")

\* helpers.py lines 315 and 322: `if not success`, a later strategy is
\* entered only while no earlier one has produced the artifact
FallbackAlways(success) == TRUE

Fallback(success) == ~success

VideoInit ==
    /\ Quiet
    /\ call \in [pc : {"ffmpeg"}, folder : Folders, success : {FALSE},
                 video_path : {"mp4"}, tried : {<<>>}, result : {"None"}]

\* helpers.py lines 308-312 and 118-197: MP4 through ffmpeg.  Without valid
\* frames the builder returns False; the temporary directory and the concat
\* list are made outside its try statement, so a failure there leaves the
\* call by an exception; a failed or timed-out encoding returns False.
VideoFfmpeg ==
    /\ call.pc = "ffmpeg"
    /\ \E available \in BOOLEAN, scratch \in BOOLEAN, encoded \in BOOLEAN :
         call' =
           IF ~available THEN [call EXCEPT !.pc = "gif"]
           ELSE LET c == [call EXCEPT !.tried = @ \o <<"mp4">>]
                IN  IF get_valid_frames(call.folder) = <<>>
                    THEN [c EXCEPT !.pc = "gif"]
                    ELSE IF ~scratch THEN [c EXCEPT !.pc = "raised"]
                    ELSE [c EXCEPT !.pc = "gif", !.success = encoded]
    /\ UNCHANGED engine

\* helpers.py lines 314-319 and 200-247: the animated GIF, when there is no
\* MP4
VideoGif ==
    /\ call.pc = "gif"
    /\ \E saved \in BOOLEAN :
         call' =
           IF ~Fallback(call.success) THEN [call EXCEPT !.pc = "still"]
           ELSE LET built == get_valid_frames(call.folder) # <<>> /\ saved
                IN  [call EXCEPT !.pc = "still",
                                 !.tried = @ \o <<"gif">>,
                                 !.success = built,
                                 !.video_path = IF built THEN "gif" ELSE @]
    /\ UNCHANGED engine

\* helpers.py lines 321-331: the first frame as a still, when there is
\* neither; with no valid frame at all the call returns None
VideoStill ==
    /\ call.pc = "still"
    /\ call' =
         IF ~Fallback(call.success) THEN [call EXCEPT !.pc = "upload"]
         ELSE LET c == [call EXCEPT !.tried = @ \o <<"still">>]
              IN  IF get_valid_frames(call.folder) # <<>>
                  THEN [c EXCEPT !.pc = "upload", !.success = TRUE,
                                 !.video_path = "frame"]
                  ELSE [c EXCEPT !.pc = "returned", !.result = "None"]
    /\ UNCHANGED engine

\* helpers.py lines 333-339 and 254-278: the upload; without configuration
\* or on a failed upload the local path is returned, the value of video_path
VideoUpload ==
    /\ call.pc = "upload"
    /\ \E configured \in BOOLEAN, uploaded \in BOOLEAN :
         call' = [call EXCEPT
                    !.pc = "returned",
                    !.result = IF configured /\ uploaded
                               THEN "url" ELSE call.video_path]
    /\ UNCHANGED engine

VideoSpec ==
    VideoInit /\ [][VideoFfmpeg \/ VideoGif \/ VideoStill \/ VideoUpload]_vars

\* ------------------------------------------------------ good.py: run_agent

\* good.py line 203: `except Exception as exc` around the engine run
CaughtUnlessRuntime(e) ==
    issubclass(e, "Exception") /\ ~issubclass(e, "RuntimeError")

Caught(e) == issubclass(e, "Exception")

\* callbacks counts the calls of the step callback, closed tells that
\* browser.close() was called, assembled that create_and_upload_video was
\* (history, not program state); err is what the engine run raised.
GoodInit ==
    /\ Quiet
    /\ call = [pc |-> "setup", browser |-> FALSE, step_counter |-> 0,
               callbacks |-> 0, err |-> "none", result_text |-> <<>>,
               final_status |-> "success", closed |-> FALSE,
               assembled |-> FALSE, exc |-> "none", response |-> None]

\* good.py lines 139-198: the folder, the LLM client (build_llm raises
\* RuntimeError when no client can be built), the callback with its
\* counter, the browser when BrowserConfig is there and works, the Agent
GoodSetup ==
    /\ call.pc = "setup"
    /\ \E llm \in BOOLEAN, browser \in BOOLEAN :
         call' = IF ~llm
                 THEN [call EXCEPT !.pc = "raised", !.exc = "RuntimeError"]
                 ELSE [call EXCEPT !.pc = "run", !.browser = browser]
    /\ UNCHANGED engine

\* good.py lines 66-104: the engine calls the screenshot callback at the
\* end of a step; it counts the step first, and neither a missing page nor
\* a failed screenshot raises
GoodCallback ==
    /\ call.pc = "run"
    /\ call.step_counter < MaxCalls
    /\ call' = [call EXCEPT !.step_counter = @ + 1, !.callbacks = @ + 1]
    /\ UNCHANGED engine

\* good.py lines 200-209: the engine run returns, or raises; an Exception
\* is turned into the text and the status of the response, anything else
\* goes on to the finally clause and out
GoodRunEnds ==
    /\ call.pc = "run"
    /\ \E e \in Faults \cup {"none"} :
         call' =
           IF e = "none"
           THEN [call EXCEPT !.pc = "finally",
                             !.result_text = <<"history">>]
           ELSE IF Caught(e)
           THEN [call EXCEPT !.pc = "finally", !.err = e,
                             !.result_text = <<"Agent error: ", e>>,
                             !.final_status = "failed"]
           ELSE [call EXCEPT !.pc = "finally", !.err = e, !.exc = e]
    /\ UNCHANGED engine

\* good.py lines 211-216: the finally clause closes the browser, if there
\* is one, and swallows what close() raises; an error on its way out
\* leaves run_agent after it
GoodFinally ==
    /\ call.pc = "finally"
    /\ call' = [call EXCEPT
                  !.closed = call.browser,
                  !.pc = IF call.exc # "none" THEN "raised" ELSE "video"]
    /\ UNCHANGED engine

\* good.py lines 218-228: the artifact is assembled, with whatever
\* create_and_upload_video gives back (a URL, a local path, None, or the
\* OSError it lets through), and the response is built
GoodRespond ==
    /\ call.pc = "video"
    /\ \E video_url \in {"url", "mp4", "gif", "frame", "None", "OSError"} :
         call' =
           IF video_url = "OSError"
           THEN [call EXCEPT !.pc = "raised", !.assembled = TRUE,
                             !.exc = "OSError"]
           ELSE [call EXCEPT
                   !.pc = "returned", !.assembled = TRUE,
                   !.response = [status |-> call.final_status,
                                 result |-> call.result_text,
                                 video_url |-> video_url,
                                 steps_taken |-> call.step_counter]]
    /\ UNCHANGED engine

GoodSpec ==
    GoodInit /\ [][\/ GoodSetup \/ GoodCallback \/ GoodRunEnds
                   \/ GoodFinally \/ GoodRespond]_vars

\* ------------------------------------------------------------------ claims
\* Workers of request q that have passed the winner-claim and not failed
\* since: they act as the winner of the race.
Believers(q) ==
    {i \in Workers : worker[q][i].pc \in {"claimed", "video", "VALID"}}

\* Workers that are inside the block guarded by the semaphore.
Active(q) == {i \in Workers : worker[q][i].pc \in Guarded}

\* Workers that hold a slot of the semaphore.
Holders(q) == {i \in Workers : worker[q][i].slot}

\* C1: in one call of _race at most one worker ever passes the winner-claim
\* and at most one outcome is ever put on the result queue, in every
\* interleaving; no two workers act as the winner.
C1_OneWinner ==
    /\ Cardinality(race[1].claimed) <= 1
    /\ race[1].puts <= 1
    /\ Len(race[1].q) <= 1
    /\ Cardinality(Believers(1)) <= 1

\* Two workers were let past line 972 with the flag unset; one of them has
\* made the claim while the other still waits for the winner lock.
C1_Witness ==
    \E i, j \in Workers :
        /\ i # j
        /\ worker[1][i].pc = "claimed"
        /\ worker[1][j].pc = "lockwait"

\* C2: the workers of a round that are inside the guarded block never
\* outnumber the capacity; a worker in the block holds a slot it acquired,
\* and a worker still at the acquisition holds none.
C2_LimiterBound ==
    /\ Cardinality(Active(1)) <= capacity
    /\ Active(1) \subseteq Holders(1)
    /\ \A i \in Workers :
         worker[1][i].pc \in {"created", "acquire"} => ~worker[1][i].slot

\* More workers than slots: every slot is taken and a worker is blocked on
\* the acquisition.
C2_Witness ==
    /\ Cardinality(Active(1)) = capacity
    /\ \E i \in Workers : worker[1][i].pc = "acquire"

\* C3: summed over all the requests served at a time, the workers inside
\* the guarded block never outnumber the capacity of the one semaphore.
TotalActive == Cardinality({qi \in Requests \X Workers :
                              worker[qi[1]][qi[2]].pc \in Guarded})

C3_ProcessWideBound ==
    /\ TotalActive <= capacity
    /\ browser_semaphore >= 0

\* Under the shipped capacity one request's worker runs the engine in a
\* later round while another request's worker is blocked on the semaphore.
C3_Witness ==
    /\ capacity = MAX_BROWSERS
    /\ \E q1, q2 \in Requests :
         /\ q1 # q2
         /\ agent[q1].rnd > 1
         /\ worker[q1][1].pc = "run"
         /\ worker[q2][1].pc = "acquire"

\* C4: a worker that has terminated holds no slot, whatever way it ended,
\* and the free slots are the capacity less the slots held.
C4_SlotReleased ==
    /\ \A i \in Workers : Done(1, i) => ~worker[1][i].slot
    /\ browser_semaphore = capacity - Cardinality(Holders(1))

\* One worker was cut by the timeout and another left as the winner; every
\* slot is free again.
C4_Witness ==
    /\ \E i, j \in Workers :
         /\ worker[1][i].pc = "TIMED_OUT"
         /\ worker[1][j].pc = "VALID"
    /\ browser_semaphore = capacity

\* C5: in every terminal state of a worker its folder has been removed.
C5_FolderRemoved ==
    \A i \in Workers : Done(1, i) => ~worker[1][i].folder

\* C6: when _race returns, every task it launched has terminated, holds no
\* slot and has left no folder behind.
C6_Drained ==
    race[1].pc = "returned" =>
        \A i \in 1..race[1].tasks :
            /\ Done(1, i)
            /\ ~worker[1][i].slot
            /\ ~worker[1][i].folder

\* C7: within a race the cancellation flag, once set, stays set.
C7_FlagMonotonic ==
    [][race[1].cancel => race'[1].cancel]_vars

\* The flag was set by a claiming worker and then set again by the
\* coordinator on its way out.
C7_Witness ==
    /\ race[1].claimed # {}
    /\ race[1].pc = "returned"
    /\ race[1].cancel

\* C8: a request none of whose rounds queued an outcome ends after exactly
\* RACE_MAX_ROUNDS races with the empty response.
C8_AllRoundsFail ==
    (agent[1].pc = "done" /\ agent[1].outcomes = 0) =>
        /\ agent[1].races = RACE_MAX_ROUNDS
        /\ agent[1].response =
             [video_url |-> "None", steps_taken |-> 0,
              extracted_data |-> None, worker_id |-> 0]

\* The request is over and no round queued an outcome.
C8_Witness ==
    /\ agent[1].pc = "done"
    /\ agent[1].outcomes = 0

\* C9: the request ends at the first round whose race returns an outcome,
\* with that outcome's fields as the response; nothing runs afterwards, and
\* the round index moves only after a race that returned nothing.
C9_StopsAtFirstOutcome ==
    /\ []((agent[1].pc = "done" /\ agent[1].outcomes > 0) =>
            /\ race[1].winner # <<>>
            /\ agent[1].races = agent[1].rnd
            /\ agent[1].outcomes = 1
            /\ agent[1].response.worker_id = race[1].winner[1].wid
            /\ agent[1].response.extracted_data = race[1].winner[1].data
            /\ agent[1].response.steps_taken = race[1].winner[1].steps
            /\ agent[1].response.video_url = race[1].winner[1].video_url)
    /\ [][/\ agent[1].pc = "done" =>
               /\ agent'[1] = agent[1]
               /\ race'[1] = race[1]
               /\ worker'[1] = worker[1]
          /\ agent'[1].rnd # agent[1].rnd =>
               /\ agent'[1].rnd = agent[1].rnd + 1
               /\ race[1].pc = "returned"
               /\ race[1].winner = <<>>]_vars

\* A later round's worker won after a counted step; its outcome is the
\* response.
C9_Witness ==
    /\ agent[1].pc = "done"
    /\ agent[1].rnd > 1
    /\ agent[1].response.steps_taken > 0
    /\ agent[1].response.worker_id = 1

\* C10: a round is launched only when the race of the round before has
\* returned and all its workers have terminated.
C10_RoundsSequential ==
    [][agent'[1].races # agent[1].races =>
         /\ race[1].pc \in {"idle", "returned"}
         /\ \A i \in Workers : worker[1][i].pc \in Terminal \cup {"none"}]_vars

\* A worker of the second round is running.
C10_Witness ==
    /\ agent[1].races = 2
    /\ worker[1][1].pc = "run"

\* C11: when the pool holds more descriptors than a round takes, the
\* rounds of a request are not all given the same descriptors.
C11_SlicesRotate ==
    (/\ agent[1].races = RACE_MAX_ROUNDS
     /\ Len(agent[1].pool) > Len(agent[1].slices[1])) =>
        \E r, s \in 1..Len(agent[1].slices) :
            agent[1].slices[r] # agent[1].slices[s]

\* C12: an outcome is put on the queue only by a worker whose payload the
\* validator accepted and that passed the winner-claim; the claim is passed
\* only with the flag unset while holding the winner lock; a worker that
\* finds the flag set, at the first check or under the lock, ends without
\* an outcome.
C12_PutOnlyByClaimer ==
    /\ [](\A k \in 1..Len(race[1].sent) :
            /\ is_valid(race[1].sent[k].data)
            /\ race[1].sent[k].wid \in race[1].claimed
            /\ worker[1][race[1].sent[k].wid].pc # "INVALID")
    /\ [][\A i \in Workers :
            /\ i \in race'[1].claimed \ race[1].claimed =>
                 /\ ~race[1].cancel
                 /\ race[1].winner_lock = i
                 /\ is_valid(worker[1][i].cleaned)
            /\ (/\ race[1].cancel
                /\ worker[1][i].pc \in {"validated", "inlock"}
                /\ worker'[1][i].pc # worker[1][i].pc) =>
                 /\ worker'[1][i].pc = "INVALID"
                 /\ race'[1].sent = race[1].sent]_vars

\* One worker has queued its outcome; another passed the first check before
\* the flag was set and now holds the winner lock with the flag set.
C12_Witness ==
    \E i, j \in Workers :
        /\ i # j
        /\ race[1].puts = 1
        /\ race[1].sent[1].wid = i
        /\ worker[1][j].pc = "inlock"
        /\ race[1].cancel

\* Terminal states in which the worker has failed.
Failed == {"TIMED_OUT", "CANCELLED", "ERRORED"}

\* C13: a worker that ends TIMED_OUT, CANCELLED or ERRORED has put no outcome
\* on the queue, and the step that ends it so puts none.
C13_FailedNeverReport ==
    /\ [](\A i \in Workers :
            worker[1][i].pc \in Failed =>
                \A k \in 1..Len(race[1].sent) : race[1].sent[k].wid # i)
    /\ [][\A i \in Workers :
            (worker'[1][i].pc \in Failed /\ worker[1][i].pc \notin Failed) =>
                /\ race'[1].sent = race[1].sent
                /\ race'[1].q = race[1].q]_vars

\* A worker passed the claim and failed afterwards; the race is over and
\* nothing was queued.
C13_Witness ==
    \E i \in Workers :
        /\ i \in race[1].claimed
        /\ worker[1][i].pc = "ERRORED"
        /\ race[1].puts = 0
        /\ race[1].pc = "returned"

\* C14: the timeout of a worker inside the engine call can fire whatever the
\* state of the race, and the worker does not stay in the call for ever; the
\* step that ends it TIMED_OUT frees its slot and folder, queues nothing,
\* leaves the flag and the coordinator as they were and touches no other
\* worker.
C14_TimeoutTearsDown ==
    /\ [](\A i \in Workers :
            (worker[1][i].pc \in Running /\ ~worker[1][i].must_cancel) =>
                ENABLED WTimeout(1, i))
    /\ [][\A i \in Workers :
            (worker'[1][i].pc = "TIMED_OUT" /\ worker[1][i].pc # "TIMED_OUT") =>
                /\ worker[1][i].pc \in Running
                /\ ~worker'[1][i].slot /\ ~worker'[1][i].folder
                /\ race'[1] = race[1]
                /\ \A j \in Workers \ {i} : worker'[1][j] = worker[1][j]]_vars
    /\ \A i \in Workers :
         (worker[1][i].pc \in Running) ~> (worker[1][i].pc \notin Running)

\* With one slot, a worker was cut by the timeout before anybody had won;
\* the coordinator went on waiting and the other worker, which got the slot
\* afterwards, has passed the claim.
C14_Witness ==
    \E i, j \in Workers :
        /\ capacity = 1
        /\ worker[1][i].pc = "TIMED_OUT"
        /\ worker[1][j].pc = "video"
        /\ race[1].pc = "wait"
        /\ race[1].pending = {j}

C16_ReturnsQueuedOutcome ==
    race[1].pc = "returned" =>
        /\ race[1].winner = race[1].sent
        /\ race[1].q = <<>>
        /\ \A i \in 1..race[1].tasks : Done(1, i)
        /\ \A i \in Workers :
             worker[1][i].pc = "VALID" <=>
                 (race[1].winner # <<>> /\ race[1].winner[1].wid = i)

\* The race returned one worker's outcome and the other worker was
\* cancelled.
C16_Witness ==
    \E i, j \in Workers :
        /\ race[1].pc = "returned"
        /\ race[1].winner # <<>>
        /\ race[1].winner[1].wid = i
        /\ worker[1][j].pc = "CANCELLED"

\* C17: a worker ends CANCELLED only at the checkpoint of its step callback,
\* with the flag set; the coordinator interrupts no worker at any other
\* suspension point (and the timeout ends a worker TIMED_OUT, from inside
\* the engine call only).
C17_CooperativeOnly ==
    [][\A i \in Workers :
         /\ (worker'[1][i].pc = "CANCELLED" /\ worker[1][i].pc # "CANCELLED") =>
                /\ worker[1][i].pc = "run"
                /\ race[1].cancel
                /\ ~worker[1][i].must_cancel
         /\ (worker'[1][i].pc = "TIMED_OUT" /\ worker[1][i].pc # "TIMED_OUT") =>
                worker[1][i].pc \in Running]_vars

\* C18: the step callback looks at the flag before anything else: a step
\* is counted, and the body of the callback is entered, only from the
\* engine call with the flag unset, one step at a time; with the flag set
\* the callback ends the worker at once, the counter and the body untouched.
C18_FlagCheckedFirst ==
    [][\A i \in Workers :
         /\ worker'[1][i].steps > worker[1][i].steps =>
                /\ ~race[1].cancel
                /\ worker[1][i].pc = "run"
                /\ worker'[1][i].steps = worker[1][i].steps + 1
         /\ (worker'[1][i].pc = "instep" /\ worker[1][i].pc # "instep") =>
                /\ ~race[1].cancel
                /\ worker[1][i].pc = "run"
         /\ (/\ worker[1][i].pc = "run"
             /\ race[1].cancel
             /\ worker'[1][i].pc # "run") =>
                /\ worker'[1][i].pc \in {"CANCELLED", "TIMED_OUT", "ERRORED",
                                         "extract"}
                /\ worker'[1][i].steps <= worker[1][i].steps]_vars

\* A worker was ended by its callback: it is CANCELLED while the
\* coordinator, which has cancelled nobody yet, still waits; the flag was
\* set by the worker that passed the claim.
C18_Witness ==
    \E i, j \in Workers :
        /\ worker[1][i].pc = "CANCELLED"
        /\ race[1].pc = "wait"
        /\ race[1].claimed = {j}
        /\ race[1].cancel

\* C19: the worker that holds the winner lock is at the check-and-set of
\* lines 974-976, which is no suspension point and can be taken at once; at
\* every other position, the dumps, the video and the put included, a
\* worker holds no lock.
C19_LockOnlyForCheckAndSet ==
    \A i \in Workers :
        race[1].winner_lock = i =>
            /\ worker[1][i].pc = "inlock"
            /\ worker[1][i].pc \notin Suspended
            /\ ENABLED WClaim(1, i)

\* One worker is building its video after the claim while another waits
\* for the winner lock, which is free.
C19_Witness ==
    \E i, j \in Workers :
        /\ worker[1][i].pc = "video"
        /\ worker[1][j].pc = "lockwait"
        /\ race[1].winner_lock = 0

\* C20: a worker that has passed the claim and reached the video leaves it
\* in one way only, whatever the video call gave (a URL, a path, or nothing
\* because it failed): it puts an outcome with its id, its payload and its
\* step count and ends VALID.
C20_ArtifactFailureKeepsOutcome ==
    [][\A i \in Workers :
         (worker[1][i].pc = "video" /\ worker'[1][i].pc # "video") =>
             /\ worker'[1][i].pc = "VALID"
             /\ Len(race'[1].sent) = Len(race[1].sent) + 1
             /\ LET o == race'[1].sent[Len(race'[1].sent)]
                IN /\ o.wid = i
                   /\ o.data = worker[1][i].cleaned
                   /\ o.steps = worker[1][i].steps
                   /\ o.video_url \in VideoUrls
                   /\ race'[1].q = Append(race[1].q, o)]_vars

\* The video failed for a winner that had counted a step; the race
\* returned its outcome, without a video.
C20_Witness ==
    /\ race[1].pc = "returned"
    /\ race[1].winner # <<>>
    /\ race[1].winner[1].video_url = "None"
    /\ race[1].winner[1].steps > 0
    /\ race[1].winner[1].data = Rows

\* ------------------------------------------------------ claims on _is_valid

\* A payload holds a denylisted phrase: it is a text that has one,
\* whatever the case, or a list or mapping one of whose members holds one.
RECURSIVE HoldsPhrase(_)
HoldsPhrase(v) ==
    IF isinstance(v, "str")
    THEN \E k \in 1..Len(bad) : Contains(lower(v.chars), bad[k])
    ELSE IF isinstance(v, "list") \/ isinstance(v, "tuple")
    THEN \E i \in 1..Len(v.items) : HoldsPhrase(v.items[i])
    ELSE IF isinstance(v, "dict")
    THEN \E i \in 1..Len(v.values) : HoldsPhrase(v.values[i])
    ELSE FALSE

\* C24: the validator rejects every payload that holds a denylisted phrase,
\* whatever its length and whether it is a text, a mapping or a list.
C24_DenylistAnyShape ==
    (call.pc = "returned" /\ HoldsPhrase(call.result)) => ~call.verdict

\* C25: a mapping is accepted exactly when at least one of its values is a
\* non-empty list; a mapping with no such value is rejected.
C25_MappingNeedsList ==
    (call.pc = "returned" /\ isinstance(call.result, "dict")) =>
        (call.verdict <=>
            \E i \in 1..Len(call.result.values) :
                /\ isinstance(call.result.values[i], "list")
                /\ call.result.values[i].items # <<>>)

\* a mapping with a list value whose first element is a row with two of the
\* expected field names is accepted
C25_Witness ==
    /\ (call.pc = "returned" /\ isinstance(call.result, "dict"))
    /\ call.result = Dict(<<"rows", "count">>, <<Rows, Num(0)>>)
    /\ Len(Rows.items[1].keys) >= 2
    /\ call.verdict

\* C26: a text is accepted exactly when it has at least MIN_TEXT characters
\* and holds no denylisted phrase, whatever the case of its letters.
C26_TextLongAndClean ==
    (call.pc = "returned" /\ isinstance(call.result, "str")) =>
        (call.verdict <=>
            /\ Len(call.result.chars) >= MIN_TEXT
            /\ ~HoldsPhrase(call.result))

\* a text of the least length with a phrase in capitals is rejected
C26_Witness ==
    /\ (call.pc = "returned" /\ isinstance(call.result, "str"))
    /\ call.result = PhraseText(7, TRUE, MaxPad, MIN_TEXT)
    /\ Len(call.result.chars) = MIN_TEXT
    /\ ~call.verdict

\* C27: a bare list is accepted exactly when it is non-empty and its first
\* element is a mapping.
C27_ListOfRows ==
    (call.pc = "returned" /\ isinstance(call.result, "list")) =>
        (call.verdict <=>
            /\ call.result.items # <<>>
            /\ isinstance(call.result.items[1], "dict"))

\* a non-empty list whose first element is not a mapping is rejected
C27_Witness ==
    /\ (call.pc = "returned" /\ isinstance(call.result, "list"))
    /\ call.result = List(<<Num(0), Row>>)
    /\ ~call.verdict

\* C28: the validator rejects None, the empty text, the empty list and the
\* empty mapping, and accepts every non-empty payload that is neither a
\* text, a mapping nor a list; giving the verdict changes neither the
\* payload nor anything of the engine.
C28_EmptyAndOther ==
    /\ [](call.pc = "returned" =>
            /\ call.result \in {None, Str(<<>>), List(<<>>), Dict(<<>>, <<>>)}
                 => ~call.verdict
            /\ (/\ call.result \notin {None, Tuple(<<>>)}
                /\ call.result.type \notin {"str", "dict", "list"})
                 => call.verdict)
    /\ [][call'.result = call.result /\ UNCHANGED engine]_vars

\* None is rejected
C28_Witness ==
    /\ call.pc = "returned"
    /\ call.result = None
    /\ ~call.verdict

\* -------------------------------------------- claims on result extraction

\* C21 as stated: the first pass that yields non-empty content determines
\* the payload, and no later pass, the page scrape included, is attempted
\* once a pass has yielded non-empty content.
C21_FirstContentEndsPasses ==
    (call.pc = "extracted" /\ call.yielded # <<>>) =>
        /\ call.tried[Len(call.tried)] = call.yielded[1]
        /\ call.cleaned = clean_result(call.rt)

\* C21, amended: the history passes are made in order and stop at the first
\* that yields non-empty content, whose cleaned text is the payload; the
\* page scrape is made exactly when that payload is not accepted by the
\* validator and a page was seen, and its rows, if any, replace the payload.
C21_PassesThenScrape ==
    LET PassOrder ==
            <<"final_result", "done_action", "done_history", "last_text">>
        HistoryTried == SelectSeq(call.tried, LAMBDA pass : pass # "scrape")
        Scraped == \E i \in 1..Len(call.tried) : call.tried[i] = "scrape"
    IN
    call.pc = "extracted" =>
        /\ HistoryTried = SubSeq(PassOrder, 1, Len(HistoryTried))
        /\ IF truthy(call.rt)
           THEN call.yielded = <<HistoryTried[Len(HistoryTried)]>>
           ELSE call.yielded = <<>> /\ HistoryTried = PassOrder
        /\ Scraped <=> (~is_valid(clean_result(call.rt)) /\ call.page)
        /\ call.cleaned =
              IF Scraped /\ call.evaluated \notin {Raised, List(<<>>)}
              THEN call.evaluated
              ELSE clean_result(call.rt)

\* the final result is a text the validator rejects, and the scrape that
\* follows it replaces the payload by its rows
C21_Witness ==
    /\ call.pc = "extracted"
    /\ call.rt = Str(bad[7])
    /\ call.tried = <<"final_result", "scrape">>
    /\ call.yielded = <<"final_result">>
    /\ call.cleaned = Rows

\* ------------------------------------------------------- claims on warm-up

\* C22: whatever fails in the warm-up, a site or the whole session, the
\* worker leaves the warm-up only to make its session and start the run, or
\* by being cancelled.
C22_WarmupNeverAborts ==
    [][(call.pc \in Warming /\ call'.pc \notin Warming)
            => call'.pc \in {"make_session", "cancelled"}]_vars

\* every site failed and so did the closing of the context, and the run
\* was started all the same
C22_Witness ==
    /\ call.pc = "run"
    /\ Len(call.failures) = WARMUP_SITES + 1
    /\ call.success = 0

\* ------------------------------------------------ claims on the step callback

\* C23 as stated: an error raised in the body of the callback, other than a
\* cancellation, is swallowed whatever its type: the callback returns and
\* the run goes on.
C23_EveryErrorSwallowed ==
    (call.err # "none" /\ ~issubclass(call.err, "CancelledError"))
        => call.pc # "raised"

\* C23, amended: an error raised in the body of the callback is printed and
\* swallowed, the callback returning to the engine, unless it is a
\* RuntimeError (the persistent-block abort is one) or not an Exception (a
\* cancellation): such an error leaves the callback.
C23_ErrorsSwallowedButRuntime ==
    [][(call.pc \in StepBody /\ call'.err # "none") =>
          IF \/ issubclass(call'.err, "RuntimeError")
             \/ ~issubclass(call'.err, "Exception")
          THEN call'.pc = "raised" /\ call'.exc = call'.err
          ELSE /\ call'.pc = "engine"
               /\ call'.printed = call'.err
               /\ call'.exc = "none"
               /\ call'.steps = call.steps]_vars

\* a first step swallowed a timeout, the run went on, and a later step was
\* left by an error of a subclass of RuntimeError
C23_Witness ==
    /\ call.pc = "raised"
    /\ call.steps = 2
    /\ call.printed = "TimeoutError"
    /\ call.exc = "NotImplementedError"

\* ---------------------------------------------- claims on the CAPTCHA solver

\* The steps a call with locals c can still take before it returns, at most.
StepsLeft(c) ==
    CASE c.pc = "solve"    -> 2 * POLL_LIMIT + 4
      [] c.pc = "create"   -> 2 * POLL_LIMIT + 3
      [] c.pc = "loop"     -> 2 * (POLL_LIMIT - c.polls) + 2
      [] c.pc = "poll"     -> 2 * (POLL_LIMIT - c.polls) + 1
      [] c.pc = "returned" -> 0

\* C29: the exchange is create-then-poll: at most POLL_LIMIT polls, one
\* sleep of POLL_INTERVAL ahead of each; the call returns at the first
\* reply that is ready, with its solution, and returns None at a failed
\* reply, at a create error, at an exception and after the last poll; every
\* step lowers StepsLeft, the most steps the call can still take, and no
\* state short of the return is stuck.
C29_BoundedPolling ==
    /\ [](/\ call.polls <= POLL_LIMIT
          /\ call.clock = POLL_INTERVAL *
                (call.polls + IF call.pc = "poll" THEN 1 ELSE 0)
          /\ call.last \in {"ready", "failed", "error", "raises", "exhausted",
                            "no key"} => call.pc = "returned"
          /\ call.pc = "returned" =>
                /\ call.last = "ready" =>
                      /\ call.reply.status = "ready"
                      /\ call.reply.has_solution
                            => call.result = call.reply.solution
                      /\ ~call.reply.has_solution
                            => call.result = Dict(<<>>, <<>>)
                /\ call.last # "ready" => call.result = None
                /\ call.last = "exhausted" => call.polls = POLL_LIMIT
          /\ call.pc # "returned" => ENABLED CapsolverNext
          /\ StepsLeft(call) >= 0)
    /\ [][StepsLeft(call') < StepsLeft(call)]_vars

\* POLL_LIMIT polls found the task processing and the call gave up
C29_Witness ==
    /\ call.pc = "returned"
    /\ call.last = "exhausted"
    /\ call.polls = POLL_LIMIT
    /\ call.clock = POLL_LIMIT * POLL_INTERVAL
    /\ call.result = None

\* -------------------------------------------- claims on artifact assembly

\* C30: create_and_upload_video returns a string, a hosted URL or a local
\* path, whatever the frame folder, ffmpeg and the hosting service do: it
\* never raises and never returns None.
C30_AlwaysAString ==
    /\ call.pc # "raised"
    /\ call.pc = "returned" => call.result \in {"url", "mp4", "gif", "frame"}

\* C31: artifact assembly attempts its strategies in the fixed order MP4,
\* animated GIF, first frame as a still, and attempts nothing more once one
\* of them has succeeded; what it has assembled is the artifact of the last
\* strategy attempted; a call that returns after the upload step returns the
\* hosted URL when the upload succeeded and otherwise the local path of the
\* assembled artifact.
C31_OrderedFallback ==
    /\ [](LET Order    == <<"mp4", "gif", "still">>
              Artifact == [mp4 |-> "mp4", gif |-> "gif", still |-> "frame"]
              Ordered(t) ==
                \A i, j \in 1..Len(t) :
                   i < j => \E a, b \in 1..3 :
                              a < b /\ t[i] = Order[a] /\ t[j] = Order[b]
          IN  call.pc # "none" =>
                /\ Ordered(call.tried)
                /\ call.success =>
                      /\ call.tried # <<>>
                      /\ call.video_path =
                           Artifact[call.tried[Len(call.tried)]]
                /\ call.pc = "returned" =>
                      IF call.success
                      THEN call.result \in {"url", call.video_path}
                      ELSE call.tried = SubSeq(Order, 4 - Len(call.tried), 3))
    /\ [][(call.pc # "none" /\ call.success) =>
             /\ call'.tried = call.tried
             /\ call'.video_path = call.video_path
             /\ call'.success]_vars

\* MP4 could not be built, the GIF was, the upload failed: the path of the
\* GIF is returned and the still was never attempted
C31_Witness ==
    /\ call.pc = "returned"
    /\ call.tried = <<"mp4", "gif">>
    /\ call.result = "gif"

\* ------------------------------------------- claims on the end of a round

\* C32: a claimed win is never lost: a round in which a worker set the flag
\* through the winner-claim does not end without an outcome; when _race
\* returns, it returns the outcome of a worker that passed the claim.
C32_ClaimedWinReturned ==
    (race[1].pc = "returned" /\ race[1].claimed # {}) =>
        /\ race[1].winner # <<>>
        /\ race[1].winner[1].wid \in race[1].claimed

\* ----------------------------------------------- claims on the response

\* C33: when the response names a local path as its artifact, the file is
\* still there: the working folder of the worker that produced it, in which
\* the artifact was assembled, has not been removed when run_agent returns.
C33_LocalArtifactKept ==
    (agent[1].pc = "done" /\ agent[1].response.video_url = "local_path") =>
        worker[1][agent[1].response.worker_id].folder

\* C34: a response that carries a payload carries one the validator
\* accepts: every worker past the check of the validator holds a payload
\* _is_valid accepts, every outcome queued or returned by _race carries
\* such a payload, and so does every response of run_agent that names a
\* worker; the engine's own payload and the rows of the page scrape alike.
C34_ResponseValid ==
    /\ \A i \in Workers :
          worker[1][i].pc \in {"lockwait", "inlock", "claimed", "video"} =>
              is_valid(worker[1][i].cleaned)
    /\ \A k \in 1..Len(race[1].sent) : is_valid(race[1].sent[k].data)
    /\ race[1].winner # <<>> => is_valid(race[1].winner[1].data)
    /\ agent[1].response.extracted_data # None =>
          is_valid(agent[1].response.extracted_data)
    /\ agent[1].response.worker_id # 0 =>
          is_valid(agent[1].response.extracted_data)

\* run_agent has returned a worker's rows
C34_Witness ==
    /\ agent[1].pc = "done"
    /\ agent[1].response.worker_id # 0
    /\ agent[1].response.extracted_data = Rows

\* ------------------------------------------------- claims on the limiter

\* C35: a worker cancelled while it waits for a slot of the semaphore ends
\* without a slot and the count of free slots is the same after the
\* cancellation as before it; it takes no slot afterwards; the free slots
\* stay the capacity less the slots held over all the workers, so that a
\* worker still waiting, that has not been cancelled, can take a free slot.
C35_CancelledWaiterTakesNothing ==
    /\ [][\A q \in {1, 2}, i \in Workers :
            /\ (worker[q][i].pc = "acquire" /\ worker'[q][i].pc = "CANCELLED")
                  => /\ browser_semaphore' = browser_semaphore
                     /\ ~worker'[q][i].slot
            /\ worker[q][i].pc = "CANCELLED"
                  => /\ worker'[q][i].pc = "CANCELLED"
                     /\ ~worker'[q][i].slot]_vars
    /\ [](/\ browser_semaphore =
               capacity - Cardinality({qi \in {1, 2} \X Workers :
                                          worker[qi[1]][qi[2]].slot})
          /\ \A q \in {1, 2}, i \in Workers :
                (/\ worker[q][i].pc = "acquire"
                 /\ ~worker[q][i].must_cancel
                 /\ browser_semaphore > 0) => ENABLED WAcquire(q, i))

\* A worker of the first race was cancelled at the semaphore and that race
\* has returned; the worker of the second race is still waiting, the slot
\* is free and it can take it.
C35_Witness ==
    /\ capacity = MAX_BROWSERS
    /\ race[1].pc = "returned"
    /\ \E i \in Workers :
          /\ worker[1][i].pc = "CANCELLED"
          /\ worker[1][i].exc
          /\ worker[1][i].folder
    /\ worker[2][1].pc = "acquire"
    /\ browser_semaphore = MAX_BROWSERS
    /\ ENABLED WAcquire(2, 1)

\* --------------------------------------------------- claims on termination

C37_FourStepsInARow ==
    /\ call.aborted => /\ call.streak >= ABORT_FROM
                       /\ call.looks[Len(call.looks)]
    /\ call.reloaded => call.streak >= RELOAD_FROM
    /\ (call.looks # <<>> /\ ~call.looks[1]) => call.blocked_count = 0

\* C37 as amended: the counter is the number of callbacks that found the
\* page blocked since the last one that found it not blocked, the callbacks
\* that ended without looking at the page leaving it as it is: it goes up
\* by one when a callback's first look finds the page blocked, goes to 0
\* when it finds it not blocked, and changes at no other place.  The
\* callback aborts only with the counter at ABORT_FROM or more and the page
\* blocked at the first and at the last of its three looks; the reload is
\* attempted only with the counter at RELOAD_FROM or more and the page
\* blocked at the first and at the second look.
C37_BlockedCountThresholds ==
    /\ [](call.pc # "none" =>
            /\ call.aborted =>
                  /\ call.blocked_count >= ABORT_FROM
                  /\ Len(call.looks) = 3
                  /\ call.looks[1] /\ call.looks[3]
                  /\ call.pc = "raised" /\ call.exc = "RuntimeError"
            /\ call.reloaded =>
                  /\ call.blocked_count >= RELOAD_FROM
                  /\ call.looks[1] /\ call.looks[2]
            /\ (call.looks # <<>> /\ ~call.looks[1]) =>
                  call.blocked_count = 0
            /\ call.blocked_count >= call.streak)
    /\ [][call.pc # "none" =>
            /\ call'.blocked_count # call.blocked_count =>
                  /\ call.pc = "blocked"
                  /\ call'.looks # <<>>
                  /\ call'.blocked_count =
                       IF call'.looks[1] THEN call.blocked_count + 1 ELSE 0
            /\ (call.pc = "blocked" /\ call'.looks # <<>>) =>
                  call'.blocked_count =
                       IF call'.looks[1] THEN call.blocked_count + 1 ELSE 0]_vars

\* The worker is aborted at its fifth callback: four callbacks found the
\* page blocked and one, in between, ended without looking at it.
C37_Witness ==
    /\ call.aborted
    /\ call.steps = ABORT_FROM + 1
    /\ call.blocked_count = ABORT_FROM
    /\ call.streak < ABORT_FROM

\* --------------------------------------- claims on the single-attempt endpoint

\* C38: in good.py an Exception raised by the engine run does not leave
\* run_agent: what leaves it, if anything does, is not that error; the
\* response then has the status failed and a text that starts with
\* `Agent error:`; the browser, when there is one, has been closed once the
\* try statement is left, whether the run returned or raised; the artifact
\* has been assembled when the response is built, and steps_taken is the
\* number of calls of the step callback.
C38_EngineErrorBecomesResponse ==
    LET failed == call.err # "none" /\ issubclass(call.err, "Exception")
    IN  call.pc \notin {"none"} =>
          /\ (failed /\ call.pc = "raised") => call.exc # call.err
          /\ (failed /\ call.pc = "returned") =>
                /\ call.response.status = "failed"
                /\ startswith(call.response.result, <<"Agent error: ">>)
          /\ (call.pc = "returned" /\ call.err = "none") =>
                call.response.status = "success"
          /\ call.pc \in {"video", "returned", "raised"} /\ call.browser =>
                call.closed
          /\ call.pc = "returned" =>
                /\ call.assembled
                /\ call.response.steps_taken = call.callbacks

\* The engine raised a RuntimeError after two steps; the browser was
\* closed, the artifact was assembled and the response reports the failure
\* and the two steps.
C38_Witness ==
    /\ call.pc = "returned"
    /\ call.err = "RuntimeError"
    /\ call.browser /\ call.closed
    /\ call.response.status = "failed"
    /\ call.response.steps_taken = 2
    /\ call.response.video_url = "url"
====
